---- MODULE Spec2Model ----
(***************************************************************************)
(* Shologuti rule engine: the 37-node adjacency graph, BoardState and the  *)
(* GameRules turn engine (capture chaining), modelled from                 *)
(* src/python/shologuti/adjacency.py, game/board.py and game/rules.py.     *)
(***************************************************************************)
EXTENDS Integers, Sequences, FiniteSets, TLC

\* Python's None for an optional node or player (nodes are 1..37, players 1, 2).
None == 0

\* MoveResult.error when no error is reported (Python None).
NoError == "none"

\* Number of board slots, range(1, 38) in BoardState.__init__.
NumNodes == 37

Nodes == 1..NumNodes

Players == {1, 2}

\* Largest number of accepted moves explored from a start position.
MaxMoves == 3

\* Bound on the accepted moves of a caller that passes any integers.
MaxPlies == 2

\* Largest search depth given to a MinimaxAgent.
MaxDepth == 3

\* Largest iteration count given to an MCTSAgent.
MaxIterations == 3

\* Number of random moves after which a playout is cut with reward 0.5 (the
\* source cuts it after 200).
max_steps == 1

\* The adjacency table: for each node the edges <<neighbor, landing>> in order.
RAW_ADJACENCY ==
    <<
       <<<<2, 3>>, <<4, 9>>>>,
       <<<<1, None>>, <<5, 9>>, <<3, None>>>>,
       <<<<2, 1>>, <<6, 9>>>>,
       <<<<1, None>>, <<5, 6>>, <<9, 15>>>>,
       <<<<2, None>>, <<4, None>>, <<6, None>>, <<9, 14>>>>,
       <<<<3, None>>, <<9, 13>>, <<5, 4>>>>,
       <<<<8, 9>>, <<13, 19>>, <<12, 17>>>>,
       <<<<7, None>>, <<13, 18>>, <<9, 10>>>>,
       <<<<4, 1>>, <<5, 2>>, <<6, 3>>, <<8, 7>>, <<13, 17>>, <<14, 19>>, <<15, 21>>, <<10, 11>>>>,
       <<<<9, 8>>, <<15, 20>>, <<11, None>>>>,
       <<<<10, 9>>, <<15, 19>>, <<16, 21>>>>,
       <<<<7, None>>, <<13, 14>>, <<17, 22>>>>,
       <<<<7, None>>, <<8, None>>, <<9, 6>>, <<14, 15>>, <<19, 25>>, <<18, 23>>, <<17, None>>, <<12, None>>>>,
       <<<<9, 5>>, <<15, 16>>, <<19, 24>>, <<13, 12>>>>,
       <<<<9, 4>>, <<10, None>>, <<11, None>>, <<16, None>>, <<21, None>>, <<20, 25>>, <<19, 23>>, <<14, 13>>>>,
       <<<<11, None>>, <<15, 14>>, <<21, 26>>>>,
       <<<<12, 7>>, <<13, 9>>, <<18, 19>>, <<23, 29>>, <<22, 27>>>>,
       <<<<13, 8>>, <<19, 20>>, <<23, 28>>, <<17, None>>>>,
       <<<<13, 7>>, <<14, 9>>, <<15, 11>>, <<20, 21>>, <<25, 31>>, <<24, 29>>, <<23, 27>>, <<18, 17>>>>,
       <<<<15, 10>>, <<21, None>>, <<25, 30>>, <<19, 18>>>>,
       <<<<16, 11>>, <<15, 9>>, <<20, 19>>, <<25, 29>>, <<26, 31>>>>,
       <<<<17, 12>>, <<23, 24>>, <<27, None>>>>,
       <<<<17, None>>, <<18, 13>>, <<19, 15>>, <<24, 25>>, <<29, 34>>, <<28, None>>, <<27, None>>, <<22, None>>>>,
       <<<<19, 14>>, <<25, 26>>, <<29, 33>>, <<23, 22>>>>,
       <<<<19, 13>>, <<20, 15>>, <<21, None>>, <<26, None>>, <<31, None>>, <<30, None>>, <<29, 32>>, <<24, 23>>>>,
       <<<<21, 16>>, <<25, 24>>, <<31, None>>>>,
       <<<<22, 17>>, <<23, 19>>, <<28, 29>>>>,
       <<<<23, 18>>, <<29, 30>>, <<27, None>>>>,
       <<<<28, 27>>, <<23, 17>>, <<24, 19>>, <<25, 21>>, <<30, 31>>, <<32, 35>>, <<33, 36>>, <<34, 37>>>>,
       <<<<29, 28>>, <<25, 20>>, <<31, None>>>>,
       <<<<30, 29>>, <<25, 19>>, <<26, 21>>>>,
       <<<<29, 25>>, <<33, 34>>, <<35, None>>>>,
       <<<<32, None>>, <<29, 24>>, <<34, None>>, <<36, None>>>>,
       <<<<29, 23>>, <<33, 32>>, <<37, None>>>>,
       <<<<32, 29>>, <<36, 37>>>>,
       <<<<35, None>>, <<33, 29>>, <<37, None>>>>,
       <<<<36, 35>>, <<34, 29>>>>
    >>

\* neighbors(node) with every jump landing on the first neighbor of the node.
neighbors_landing_beside(node) ==
    [i \in 1..Len(RAW_ADJACENCY[node]) |->
        [neighbor |-> RAW_ADJACENCY[node][i][1],
         landing  |-> IF RAW_ADJACENCY[node][i][2] = 0 THEN 0
                      ELSE RAW_ADJACENCY[node][1][1]]]

\* neighbors(node) without the edges to lower-numbered nodes.
neighbors_upward_only(node) ==
    LET up == SelectSeq(RAW_ADJACENCY[node], LAMBDA e : e[1] > node)
    IN  [i \in 1..Len(up) |-> [neighbor |-> up[i][1], landing |-> up[i][2]]]

\* neighbors(node): the edges of node as Edge records, in table order.
neighbors(node) ==
    [i \in 1..Len(RAW_ADJACENCY[node]) |->
        [neighbor |-> RAW_ADJACENCY[node][i][1],
         landing  |-> RAW_ADJACENCY[node][i][2]]]

opponent(player) == IF player = 1 THEN 2 ELSE 1

MoveOption(origin, target, captured) ==
    [origin |-> origin, target |-> target, captured |-> captured]

MoveResult(legal, captured, must_continue, winner, error) ==
    [legal |-> legal, captured |-> captured, must_continue |-> must_continue,
     winner |-> winner, error |-> error]

\* BoardState.reset: 1..16 colour 1, 22..37 colour 2, 17..21 empty.
reset_board ==
    [i \in Nodes |-> IF i <= 16 THEN 1 ELSE IF i >= 22 THEN 2 ELSE None]

\* dict.get: None for a key the board does not have.
occupant(b, node) == IF node \in DOMAIN b THEN b[node] ELSE None

\* dict item assignment: overwrites the slot, or adds the key.
set_occupant(b, node, player) ==
    [n \in DOMAIN b \cup {node} |-> IF n = node THEN player ELSE b[n]]

\* simple_moves without the check that the neighbor is empty.
simple_moves_to_any_neighbor(b, origin, player) ==
    IF occupant(b, origin) # player THEN << >>
    ELSE [i \in 1..Len(neighbors(origin)) |->
            MoveOption(origin, neighbors(origin)[i].neighbor, None)]

simple_moves(b, origin, player) ==
    IF occupant(b, origin) # player THEN << >>
    ELSE LET open == SelectSeq(neighbors(origin),
                               LAMBDA e : occupant(b, e.neighbor) = None)
         IN  [i \in 1..Len(open) |-> MoveOption(origin, open[i].neighbor, None)]

\* capture_moves without the check that the hopped piece is the opponent's.
capture_moves_over_any_piece(b, origin, player) ==
    IF occupant(b, origin) # player THEN << >>
    ELSE LET hops == SelectSeq(neighbors(origin),
                               LAMBDA e : /\ e.landing # None
                                          /\ occupant(b, e.neighbor) # None
                                          /\ occupant(b, e.landing) = None)
         IN  [i \in 1..Len(hops) |-> MoveOption(origin, hops[i].landing, hops[i].neighbor)]

\* capture_moves without the check that the landing node is empty.
capture_moves_onto_any_node(b, origin, player) ==
    IF occupant(b, origin) # player THEN << >>
    ELSE LET hops == SelectSeq(neighbors(origin),
                               LAMBDA e : /\ e.landing # None
                                          /\ occupant(b, e.neighbor) = opponent(player))
         IN  [i \in 1..Len(hops) |-> MoveOption(origin, hops[i].landing, hops[i].neighbor)]

capture_moves(b, origin, player) ==
    IF occupant(b, origin) # player THEN << >>
    ELSE LET hops == SelectSeq(neighbors(origin),
                               LAMBDA e : /\ e.landing # None
                                          /\ occupant(b, e.neighbor) = opponent(player)
                                          /\ occupant(b, e.landing) = None)
         IN  [i \in 1..Len(hops) |-> MoveOption(origin, hops[i].landing, hops[i].neighbor)]

\* legal_moves, lines 91-96, offering only the captures of an origin that has one.
combine_moves_captures_only(captures, simple) ==
    IF Len(captures) > 0 THEN captures ELSE simple

\* The tail of legal_moves: captures + simple when there are captures.
combine_moves(captures, simple) ==
    IF Len(captures) > 0 THEN captures \o simple ELSE simple

\* legal_moves that ignores require_capture.
legal_moves_ignoring_require_capture(b, origin, player, require_capture) ==
    combine_moves(capture_moves(b, origin, player), simple_moves(b, origin, player))

legal_moves(b, origin, player, require_capture) ==
    IF require_capture
    THEN capture_moves(b, origin, player)
    ELSE combine_moves(capture_moves(b, origin, player), simple_moves(b, origin, player))

remaining(b, player) == Cardinality({n \in DOMAIN b : b[n] = player})

\* The decision of _check_winner on the two piece counts.
winner_for_counts(red, green) ==
    IF red = 0 /\ green = 0 THEN None
    ELSE IF red = 0 THEN 2
    ELSE IF green = 0 THEN 1
    ELSE None

\* _check_winner with the two colours exchanged.
_check_winner_swapped(b) == winner_for_counts(remaining(b, 2), remaining(b, 1))

_check_winner(b) == winner_for_counts(remaining(b, 1), remaining(b, 2))

\* apply_move, lines 112-117, leaving the captured piece on the board.
board_after_move_keeping_captured(b, player, origin, target, captured) ==
    set_occupant(set_occupant(b, origin, None), target, player)

\* apply_move, lines 112-117, clearing the captured slot also when no piece
\* was captured.
board_after_move_writing_no_capture(b, player, origin, target, captured) ==
    set_occupant(set_occupant(set_occupant(b, origin, None), target, player),
                 captured, None)

\* apply_move, lines 112-117, also vacating the node after the target in the
\* numbering.
board_after_move_sweeping(b, player, origin, target, captured) ==
    LET moved == set_occupant(set_occupant(b, origin, None), target, player)
        swept == set_occupant(moved, (target % NumNodes) + 1, None)
    IN  IF captured # None THEN set_occupant(swept, captured, None) ELSE swept

\* apply_move, lines 112-117, setting the captured piece down on the origin.
board_after_move_returning_captured(b, player, origin, target, captured) ==
    LET moved == set_occupant(set_occupant(b, origin, None), target, player)
    IN  IF captured # None
        THEN set_occupant(set_occupant(moved, captured, None), origin, b[captured])
        ELSE moved

\* apply_move, lines 112-117: vacate origin, occupy target, vacate captured.
board_after_move(b, player, origin, target, captured) ==
    LET moved == set_occupant(set_occupant(b, origin, None), target, player)
    IN  IF captured # None THEN set_occupant(moved, captured, None) ELSE moved

\* apply_move, lines 119-125, on the board after the move.
result_after_move(b, player, target, captured, winner) ==
    MoveResult(TRUE, captured,
               IF captured # None /\ winner = None
               THEN Len(capture_moves(b, target, player)) > 0
               ELSE FALSE,
               winner, NoError)

\* apply_move, lines 112-125, for the option found.
apply_option(b, player, option) ==
    [board  |-> b,
     result |-> result_after_move(b, player, option.target, option.captured,
                                  _check_winner(b))]

\* apply_move, lines 107-125: matching holds the options whose target is the
\* requested one, in order; next(...) takes the first.
apply_first_match(b, player, origin, target, matching) ==
    IF Len(matching) = 0
    THEN [board |-> b,
          result |-> MoveResult(FALSE, None, FALSE, None, "illegal_move")]
    ELSE apply_option(board_after_move(b, player, origin, target, Head(matching).captured),
                      player, Head(matching))

\* BoardState.apply_move: the board after the call and the MoveResult.
apply_move(b, player, origin, target, require_capture) ==
    apply_first_match(b, player, origin, target,
                      SelectSeq(legal_moves(b, origin, player, require_capture),
                                LAMBDA move : move.target = target))

\* swap_turn that clears the pending capture but keeps the mover.
swap_turn_keeping_mover(turn) ==
    [to_move |-> turn.to_move, pending_capture_from |-> None]

\* swap_turn that flips the mover but keeps the pending capture.
swap_turn_keeping_pending(turn) ==
    [to_move |-> IF turn.to_move = 1 THEN 2 ELSE 1,
     pending_capture_from |-> turn.pending_capture_from]

\* TurnState.swap_turn.
swap_turn(turn) ==
    [to_move |-> IF turn.to_move = 1 THEN 2 ELSE 1, pending_capture_from |-> None]

\* An early return of apply_player_move that passes the turn.
rejected_passing_turn(b, turn, error) ==
    [board |-> b, turn |-> swap_turn(turn),
     result |-> MoveResult(FALSE, None, FALSE, None, error)]

\* An early return of apply_player_move (lines 35-36, 42-43): nothing touched.
rejected(b, turn, error) ==
    [board |-> b, turn |-> turn,
     result |-> MoveResult(FALSE, None, FALSE, None, error)]

\* apply_player_move, lines 49-55, leaving the turn with the winner.
turn_after_move_winner_stays(turn, target, result) ==
    IF result.winner # None
    THEN [turn EXCEPT !.pending_capture_from = None]
    ELSE IF result.captured # None /\ result.must_continue
    THEN [turn EXCEPT !.pending_capture_from = target]
    ELSE swap_turn(turn)

\* apply_player_move, lines 49-55: the turn after an accepted move.
turn_after_move(turn, target, result) ==
    LET next == IF result.captured # None /\ result.must_continue
                THEN [turn EXCEPT !.pending_capture_from = target]
                ELSE swap_turn(turn)
    IN  IF result.winner # None
        THEN [next EXCEPT !.pending_capture_from = None]
        ELSE next

\* apply_player_move, lines 45-57, on what apply_move returned.
finish_move(turn, target, applied) ==
    IF ~applied.result.legal
    THEN [board |-> applied.board, turn |-> turn, result |-> applied.result]
    ELSE [board |-> applied.board,
          turn |-> turn_after_move(turn, target, applied.result),
          result |-> applied.result]

\* apply_player_move with the pending-capture check ahead of the turn check.
apply_player_move_pending_first(b, turn, player, origin, target) ==
    LET forced_origin == turn.pending_capture_from
        require_capture == forced_origin # None
    IN  IF forced_origin # None /\ origin # forced_origin
        THEN rejected(b, turn, "must_continue_capture")
        ELSE IF player # turn.to_move
        THEN rejected(b, turn, "not_your_turn")
        ELSE finish_move(turn, target,
                         apply_move(b, player, origin, target, require_capture))

\* GameRules.apply_player_move on the state (b, turn): board, turn and result after.
apply_player_move(b, turn, player, origin, target) ==
    LET forced_origin == turn.pending_capture_from
        require_capture == forced_origin # None
    IN  IF player # turn.to_move
        THEN rejected(b, turn, "not_your_turn")
        ELSE IF forced_origin # None /\ origin # forced_origin
        THEN rejected(b, turn, "must_continue_capture")
        ELSE finish_move(turn, target,
                         apply_move(b, player, origin, target, require_capture))

\* neighbors(node) raises ValueError for a node the table does not have.
neighbors_raises(node) == node \notin DOMAIN RAW_ADJACENCY

\* simple_moves reaches neighbors(origin) only past its occupant guard.
simple_moves_raises(b, origin, player) ==
    occupant(b, origin) = player /\ neighbors_raises(origin)

\* capture_moves that asks for the edges of origin before looking at its occupant.
capture_moves_raises_unguarded(b, origin, player) == neighbors_raises(origin)

\* capture_moves reaches neighbors(origin) only past its occupant guard.
capture_moves_raises(b, origin, player) ==
    occupant(b, origin) = player /\ neighbors_raises(origin)

\* legal_moves raises when one of the two lists it builds does.
legal_moves_raises(b, origin, player, require_capture) ==
    \/ capture_moves_raises(b, origin, player)
    \/ ~require_capture /\ simple_moves_raises(b, origin, player)

\* apply_move raises in legal_moves, or after a capture in the look for a
\* further capture from the target (line 122).
apply_move_raises(b, player, origin, target, require_capture) ==
    \/ legal_moves_raises(b, origin, player, require_capture)
    \/ LET applied == apply_move(b, player, origin, target, require_capture)
       IN  /\ applied.result.legal
           /\ applied.result.captured # None
           /\ applied.result.winner = None
           /\ capture_moves_raises(applied.board, target, player)

\* apply_player_move raises when the apply_move it reaches does.
apply_player_move_raises(b, turn, player, origin, target) ==
    /\ player = turn.to_move
    /\ turn.pending_capture_from = None \/ origin = turn.pending_capture_from
    /\ apply_move_raises(b, player, origin, target, turn.pending_capture_from # None)

\* TurnState(): the dataclass defaults.
TurnState == [to_move |-> 2, pending_capture_from |-> None]

\* BoardState.reset on the slots b: every key cleared, then the two camps set.
BoardState_reset(b) ==
    [i \in DOMAIN b \cup (1..16) \cup (22..37) |->
        IF i \in 1..16 THEN 1 ELSE IF i \in 22..37 THEN 2 ELSE None]

\* GameRules.reset that resets the board and keeps the turn.
GameRules_reset_keeping_turn(b, turn) ==
    [board |-> BoardState_reset(b), turn |-> turn]

\* GameRules.reset: board.reset() and a new TurnState.
GameRules_reset(b, turn) ==
    [board |-> BoardState_reset(b), turn |-> TurnState]

\* The loop of _generate_moves over origins 1..n: the captures list.
RECURSIVE collect_captures(_, _, _)
collect_captures(b, player, n) ==
    IF n = 0 THEN << >>
    ELSE collect_captures(b, player, n - 1) \o capture_moves(b, n, player)

\* The loop of _generate_moves over origins 1..n: the quiets list, fed only
\* by the origins that have no capture.
RECURSIVE collect_quiets(_, _, _)
collect_quiets(b, player, n) ==
    IF n = 0 THEN << >>
    ELSE collect_quiets(b, player, n - 1) \o
            (IF Len(capture_moves(b, n, player)) > 0
             THEN << >>
             ELSE simple_moves(b, n, player))

\* _generate_moves, lines 54-68: captures if there are any, else quiets.
captures_else_quiets(captures, quiets) ==
    IF Len(captures) > 0 THEN captures ELSE quiets

\* ai._generate_moves(state, for_player); for_player = None means the side to move.
_generate_moves(state, for_player) ==
    LET player == IF for_player = None THEN state.turn.to_move ELSE for_player
        enforce_origin == IF player = state.turn.to_move
                          THEN state.turn.pending_capture_from
                          ELSE None
    IN  IF enforce_origin # None
        THEN IF occupant(state.board, enforce_origin) # player
             THEN << >>
             ELSE capture_moves(state.board, enforce_origin, player)
        ELSE captures_else_quiets(collect_captures(state.board, player, NumNodes),
                                  collect_quiets(state.board, player, NumNodes))

Range(seq) == {seq[i] : i \in 1..Len(seq)}

\* _winner_for_state: a colour without pieces has lost, and so has the side
\* to move when it has no candidate move.
_winner_for_state(state) ==
    IF remaining(state.board, 1) = 0 /\ remaining(state.board, 2) = 0 THEN None
    ELSE IF remaining(state.board, 1) = 0 THEN 2
    ELSE IF remaining(state.board, 2) = 0 THEN 1
    ELSE IF Len(_generate_moves(state, None)) = 0 THEN opponent(state.turn.to_move)
    ELSE None

\* math.inf among the scores, which stay below it: material * 10 is at most
\* 160 and the mobility of sixteen pieces is below 200.
Inf == 1000

Max(a, b) == IF a >= b THEN a ELSE b

Min(a, b) == IF a <= b THEN a ELSE b

\* MinimaxAgent._evaluate for the agent of colour self.
_evaluate(self, state) ==
    (remaining(state.board, self) - remaining(state.board, opponent(self))) * 10
    + (Len(_generate_moves(state, self)) - Len(_generate_moves(state, opponent(self))))
    + (IF state.turn.pending_capture_from # None /\ state.turn.to_move = self
       THEN 1 ELSE 0)

\* The GameRules objects of a search live in a heap, a sequence of their
\* values; a reference is an index, and the state given to choose_move is
\* object 1.
Given == 1

\* copy.copy-like aliasing: the same object is handed back.
deepcopy_sharing(h, ref) == [heap |-> h, ref |-> ref]

\* copy.deepcopy(state): a new object with the value of the old one.
deepcopy(h, ref) == [heap |-> Append(h, h[ref]), ref |-> Len(h) + 1]

\* Writes the outcome of apply_player_move into the object it was called on.
store_outcome(h, ref, out) ==
    [heap   |-> [h EXCEPT ![ref] = [board |-> out.board, turn |-> out.turn]],
     result |-> out.result]

\* obj.apply_player_move(player, origin, target) for the object at ref.
apply_on(h, ref, player, origin, target) ==
    store_outcome(h, ref,
                  apply_player_move(h[ref].board, h[ref].turn, player, origin, target))

\* PlannedMove(origin, target); both None stands for the answer None.
PlannedMove(origin, target) == [origin |-> origin, target |-> target]

NoPlannedMove == PlannedMove(None, None)

\* best_move = None, as a MoveOption.
NoOption == MoveOption(None, None, None)

RECURSIVE _minimax(_, _, _, _, _, _)
RECURSIVE minimax_loop(_, _, _, _, _, _, _, _, _, _, _)
RECURSIVE minimax_applied(_, _, _, _, _, _, _, _, _, _, _, _)
RECURSIVE minimax_scored(_, _, _, _, _, _, _, _, _, _)

\* _minimax, lines 137-140 and 154-157: the value, alpha and beta after the
\* child scored r, and the break on beta <= alpha.
minimax_scored(self, r, ref, depth, alpha, beta, moves, i, value, player_to_move) ==
    IF player_to_move = self
    THEN IF beta <= Max(alpha, Max(value, r.score))
         THEN [heap |-> r.heap, score |-> Max(value, r.score)]
         ELSE minimax_loop(self, r.heap, ref, depth, Max(alpha, Max(value, r.score)),
                           beta, moves, i + 1, Max(value, r.score), TRUE,
                           player_to_move)
    ELSE IF Min(beta, Min(value, r.score)) <= alpha
         THEN [heap |-> r.heap, score |-> Min(value, r.score)]
         ELSE minimax_loop(self, r.heap, ref, depth, alpha,
                           Min(beta, Min(value, r.score)), moves, i + 1,
                           Min(value, r.score), TRUE, player_to_move)

\* _minimax, lines 132-137 and 149-154: a rejected option is skipped, an
\* accepted one is searched one ply shallower.
minimax_applied(self, a, child, ref, depth, alpha, beta, moves, i, value, found, player_to_move) ==
    IF ~a.result.legal
    THEN minimax_loop(self, a.heap, ref, depth, alpha, beta, moves, i + 1, value,
                      found, player_to_move)
    ELSE minimax_scored(self, _minimax(self, a.heap, child, depth - 1, alpha, beta),
                        ref, depth, alpha, beta, moves, i, value, player_to_move)

\* _minimax, the for loop over the options from the i-th on.
minimax_loop(self, h, ref, depth, alpha, beta, moves, i, value, found, player_to_move) ==
    IF i > Len(moves)
    THEN [heap |-> h, score |-> IF found THEN value ELSE _evaluate(self, h[ref])]
    ELSE minimax_applied(self,
                         apply_on(deepcopy(h, ref).heap, deepcopy(h, ref).ref,
                                  player_to_move, moves[i].origin, moves[i].target),
                         deepcopy(h, ref).ref, ref, depth, alpha, beta, moves, i,
                         value, found, player_to_move)

\* _minimax deciding the winner by the piece counts alone, so that a blocked
\* side to move is evaluated.
_minimax_counting_pieces(self, h, ref, depth, alpha, beta) ==
    IF _check_winner(h[ref].board) # None
    THEN [heap |-> h,
          score |-> IF _check_winner(h[ref].board) = self THEN Inf ELSE -Inf]
    ELSE IF depth <= 0 \/ Len(_generate_moves(h[ref], None)) = 0
    THEN [heap |-> h, score |-> _evaluate(self, h[ref])]
    ELSE minimax_loop(self, h, ref, depth, alpha, beta,
                      _generate_moves(h[ref], None), 1,
                      IF h[ref].turn.to_move = self THEN -Inf ELSE Inf, FALSE,
                      h[ref].turn.to_move)

\* _minimax with the depth check ahead of the winner check.
_minimax_depth_first(self, h, ref, depth, alpha, beta) ==
    IF depth <= 0
    THEN [heap |-> h, score |-> _evaluate(self, h[ref])]
    ELSE IF _winner_for_state(h[ref]) # None
    THEN [heap |-> h,
          score |-> IF _winner_for_state(h[ref]) = self THEN Inf ELSE -Inf]
    ELSE IF Len(_generate_moves(h[ref], None)) = 0
    THEN [heap |-> h, score |-> _evaluate(self, h[ref])]
    ELSE minimax_loop(self, h, ref, depth, alpha, beta,
                      _generate_moves(h[ref], None), 1,
                      IF h[ref].turn.to_move = self THEN -Inf ELSE Inf, FALSE,
                      h[ref].turn.to_move)

\* MinimaxAgent._minimax on the object at ref: the heap after and the score.
_minimax(self, h, ref, depth, alpha, beta) ==
    IF _winner_for_state(h[ref]) # None
    THEN [heap |-> h,
          score |-> IF _winner_for_state(h[ref]) = self THEN Inf ELSE -Inf]
    ELSE IF depth <= 0 \/ Len(_generate_moves(h[ref], None)) = 0
    THEN [heap |-> h, score |-> _evaluate(self, h[ref])]
    ELSE minimax_loop(self, h, ref, depth, alpha, beta,
                      _generate_moves(h[ref], None), 1,
                      IF h[ref].turn.to_move = self THEN -Inf ELSE Inf, FALSE,
                      h[ref].turn.to_move)

RECURSIVE choose_loop(_, _, _, _, _, _, _, _, _, _)

\* choose_move, lines 96-102, taking a move only for a score above best_score.
choose_scored_strict(self, depth, r, ref, moves, i, best_score, best_move, alpha, beta) ==
    IF r.score > best_score
    THEN IF beta <= Max(alpha, r.score)
         THEN [heap |-> r.heap, best_move |-> moves[i]]
         ELSE choose_loop(self, depth, r.heap, ref, moves, i + 1, r.score, moves[i],
                          Max(alpha, r.score), beta)
    ELSE IF beta <= Max(alpha, best_score)
         THEN [heap |-> r.heap, best_move |-> best_move]
         ELSE choose_loop(self, depth, r.heap, ref, moves, i + 1, best_score,
                          best_move, Max(alpha, best_score), beta)

\* choose_move, lines 96-102, taking a later move also for an equal score.
choose_scored_on_ties(self, depth, r, ref, moves, i, best_score, best_move, alpha, beta) ==
    IF r.score >= best_score \/ best_move = NoOption
    THEN IF beta <= Max(alpha, r.score)
         THEN [heap |-> r.heap, best_move |-> moves[i]]
         ELSE choose_loop(self, depth, r.heap, ref, moves, i + 1, r.score, moves[i],
                          Max(alpha, r.score), beta)
    ELSE IF beta <= Max(alpha, best_score)
         THEN [heap |-> r.heap, best_move |-> best_move]
         ELSE choose_loop(self, depth, r.heap, ref, moves, i + 1, best_score,
                          best_move, Max(alpha, best_score), beta)

\* choose_move, lines 96-102: the best move and alpha after the child scored
\* r, and the break on beta <= alpha.
choose_scored(self, depth, r, ref, moves, i, best_score, best_move, alpha, beta) ==
    IF r.score > best_score \/ best_move = NoOption
    THEN IF beta <= Max(alpha, r.score)
         THEN [heap |-> r.heap, best_move |-> moves[i]]
         ELSE choose_loop(self, depth, r.heap, ref, moves, i + 1, r.score, moves[i],
                          Max(alpha, r.score), beta)
    ELSE IF beta <= Max(alpha, best_score)
         THEN [heap |-> r.heap, best_move |-> best_move]
         ELSE choose_loop(self, depth, r.heap, ref, moves, i + 1, best_score,
                          best_move, Max(alpha, best_score), beta)

\* choose_move, lines 90-94: the option is applied to the copy as self.player.
choose_applied(self, depth, a, child, ref, moves, i, best_score, best_move, alpha, beta) ==
    IF ~a.result.legal
    THEN choose_loop(self, depth, a.heap, ref, moves, i + 1, best_score, best_move,
                     alpha, beta)
    ELSE choose_scored(self, depth,
                       _minimax(self, a.heap, child, depth - 1, alpha, beta),
                       ref, moves, i, best_score, best_move, alpha, beta)

\* choose_move, the for loop over the options from the i-th on.
choose_loop(self, depth, h, ref, moves, i, best_score, best_move, alpha, beta) ==
    IF i > Len(moves)
    THEN [heap |-> h, best_move |-> best_move]
    ELSE choose_applied(self, depth,
                        apply_on(deepcopy(h, ref).heap, deepcopy(h, ref).ref, self,
                                 moves[i].origin, moves[i].target),
                        deepcopy(h, ref).ref, ref, moves, i, best_score, best_move,
                        alpha, beta)

\* choose_move, lines 105-107: None, or the best move as a PlannedMove.
planned(found) ==
    [heap |-> found.heap,
     move |-> PlannedMove(found.best_move.origin, found.best_move.target)]

\* MinimaxAgent(self, depth).choose_move on the object at ref: the heap
\* after the call and the answer.
MinimaxAgent_choose_move(self, depth, h, ref) ==
    IF Len(_generate_moves(h[ref], None)) = 0
    THEN [heap |-> h, move |-> NoPlannedMove]
    ELSE planned(choose_loop(self, depth, h, ref, _generate_moves(h[ref], None), 1,
                             -Inf, NoOption, -Inf, Inf))

\* _generate_moves raises when a capture_moves or simple_moves it calls does.
_generate_moves_raises(state, for_player) ==
    LET player == IF for_player = None THEN state.turn.to_move ELSE for_player
        enforce_origin == IF player = state.turn.to_move
                          THEN state.turn.pending_capture_from
                          ELSE None
    IN  IF enforce_origin # None
        THEN capture_moves_raises(state.board, enforce_origin, player)
        ELSE \E origin \in DOMAIN state.board :
                \/ capture_moves_raises(state.board, origin, player)
                \/ /\ Len(capture_moves(state.board, origin, player)) = 0
                   /\ simple_moves_raises(state.board, origin, player)

\* _MCTSNode(state, parent, move) for the GameRules object at ref.  wins
\* counts half points: a reward of 1.0 is 2, of 0.5 is 1.
_MCTSNode(h, ref, parent, move) ==
    [state |-> ref, parent |-> parent, move |-> move, children |-> << >>,
     untried_moves |-> _generate_moves(h[ref], None), visits |-> 0, wins |-> 0]

is_terminal(h, node) ==
    \/ _winner_for_state(h[node.state]) # None
    \/ Len(_generate_moves(h[node.state], None)) = 0

is_fully_expanded(node) == Len(node.untried_moves) = 0

\* best_child: ucb_score is infinite for an unvisited child and max() takes
\* the first of the largest; among visited children the score needs
\* math.sqrt and math.log, so every child is a possible pick.
best_child(nodes, n) ==
    LET unvisited == SelectSeq(nodes[n].children, LAMBDA c : nodes[c].visits = 0)
    IN  IF Len(unvisited) > 0 THEN {Head(unvisited)}
        ELSE {nodes[n].children[i] : i \in 1..Len(nodes[n].children)}

\* best_child raises in max() over no children, and in math.log(self.visits)
\* when visits is 0 and some child has been visited.
best_child_raises(nodes, n) ==
    \/ Len(nodes[n].children) = 0
    \/ /\ nodes[n].visits = 0
       /\ \E i \in 1..Len(nodes[n].children) : nodes[nodes[n].children[i]].visits # 0

\* The nodes above n: those the selection loop called best_child on to
\* arrive at n.
RECURSIVE ancestors(_, _)
ancestors(nodes, n) ==
    IF nodes[n].parent = None THEN {}
    ELSE {nodes[n].parent} \cup ancestors(nodes, nodes[n].parent)

\* choose_move, lines 234-237: the nodes the selection loop can stop at.
RECURSIVE selected(_, _, _)
selected(h, nodes, n) ==
    IF /\ is_fully_expanded(nodes[n])
       /\ ~is_terminal(h, nodes[n])
       /\ Len(nodes[n].children) > 0
    THEN UNION {selected(h, nodes, c) : c \in best_child(nodes, n)}
    ELSE {n}

\* list.pop(index), what stays in the list.
pop(list, index) == SubSeq(list, 1, index - 1) \o SubSeq(list, index + 1, Len(list))

\* The heap once the objects created after the first n are unreachable.
collected(h, n) == SubSeq(h, 1, n)

RECURSIVE rollout_steps(_, _, _, _)

\* _rollout, lines 285-288: an illegal move ends the playout with 0.5.
rollout_moved(self, a, simulation, steps) ==
    IF ~a.result.legal
    THEN {[heap |-> a.heap, reward |-> 1]}
    ELSE rollout_steps(self, a.heap, simulation, steps + 1)

\* _rollout, the while loop: every (heap, reward) a random playout can end in.
rollout_steps(self, h, simulation, steps) ==
    IF steps >= max_steps
    THEN {[heap |-> h, reward |-> 1]}
    ELSE IF _winner_for_state(h[simulation]) # None
    THEN {[heap |-> h,
           reward |-> IF _winner_for_state(h[simulation]) = self THEN 2 ELSE 0]}
    ELSE IF Len(_generate_moves(h[simulation], None)) = 0
    THEN {[heap |-> h, reward |-> 1]}
    ELSE UNION {rollout_moved(self,
                              apply_on(h, simulation, h[simulation].turn.to_move,
                                       move.origin, move.target),
                              simulation, steps) :
                   move \in Range(_generate_moves(h[simulation], None))}

\* MCTSAgent._rollout on the object at ref: the playout runs on a copy, which
\* is dropped on return.
_rollout(self, h, ref) ==
    {[heap |-> collected(outcome.heap, Len(h)), reward |-> outcome.reward] :
        outcome \in rollout_steps(self, deepcopy(h, ref).heap, deepcopy(h, ref).ref, 0)}

\* choose_move, lines 251-255, counting the playout for the node it started
\* from only.
backpropagate_leaf_only(nodes, n, reward) ==
    [nodes EXCEPT ![n].visits = @ + 1, ![n].wins = @ + reward]

\* choose_move, lines 251-255: visits and wins of the node and its ancestors.
RECURSIVE backpropagate(_, _, _)
backpropagate(nodes, n, reward) ==
    IF n = None THEN nodes
    ELSE backpropagate([nodes EXCEPT ![n].visits = @ + 1, ![n].wins = @ + reward],
                       nodes[n].parent, reward)

\* choose_move, lines 250-255: rollout from node n and backpropagation.
simulated(self, h, nodes, done, n) ==
    {[heap |-> outcome.heap,
      nodes |-> backpropagate(nodes, n, outcome.reward),
      done |-> done + 1] : outcome \in _rollout(self, h, nodes[n].state)}

\* choose_move, lines 243-249: an accepted move gives a child, from which the
\* iteration goes on; a rejected one ends the iteration.
expanded(self, a, next_state, nodes, done, n, move) ==
    IF a.result.legal
    THEN simulated(self, a.heap,
                   Append([nodes EXCEPT ![n].children = Append(@, Len(nodes) + 1)],
                          _MCTSNode(a.heap, next_state, n, move)),
                   done, Len(nodes) + 1)
    ELSE {[heap |-> collected(a.heap, Len(a.heap) - 1), nodes |-> nodes,
           done |-> done + 1]}

\* choose_move, lines 238-249, applying the move as the agent's colour.
expand_as_self(self, h, nodes, done, n, move_index) ==
    expanded(self,
             apply_on(deepcopy(h, nodes[n].state).heap,
                      deepcopy(h, nodes[n].state).ref,
                      self,
                      nodes[n].untried_moves[move_index].origin,
                      nodes[n].untried_moves[move_index].target),
             deepcopy(h, nodes[n].state).ref,
             [nodes EXCEPT ![n].untried_moves = pop(@, move_index)],
             done, n, nodes[n].untried_moves[move_index])

\* choose_move, lines 238-249: the untried move at move_index is popped and
\* applied to a copy of the node's state as the side to move there.
expand(self, h, nodes, done, n, move_index) ==
    expanded(self,
             apply_on(deepcopy(h, nodes[n].state).heap,
                      deepcopy(h, nodes[n].state).ref,
                      h[nodes[n].state].turn.to_move,
                      nodes[n].untried_moves[move_index].origin,
                      nodes[n].untried_moves[move_index].target),
             deepcopy(h, nodes[n].state).ref,
             [nodes EXCEPT ![n].untried_moves = pop(@, move_index)],
             done, n, nodes[n].untried_moves[move_index])

\* One pass of the for loop of choose_move from the selected node n: every
\* search tree the random choices can leave.
iteration(self, t, n) ==
    IF ~is_terminal(t.heap, t.nodes[n]) /\ Len(t.nodes[n].untried_moves) > 0
    THEN UNION {expand(self, t.heap, t.nodes, t.done, n, move_index) :
                   move_index \in 1..Len(t.nodes[n].untried_moves)}
    ELSE simulated(self, t.heap, t.nodes, t.done, n)

\* choose_move, line 230: the root node holds a copy of the given state.
root_node(c) ==
    [heap |-> c.heap, nodes |-> <<_MCTSNode(c.heap, c.ref, None, NoOption)>>,
     done |-> 0]

\* max(root.children, key=wins / visits): the first child with the highest
\* win rate.
most_rewarded(nodes) ==
    LET children == nodes[1].children
        top == CHOOSE i \in 1..Len(children) :
                 /\ \A j \in 1..Len(children) :
                       nodes[children[j]].wins * nodes[children[i]].visits
                         <= nodes[children[i]].wins * nodes[children[j]].visits
                 /\ \A j \in 1..(i - 1) :
                       nodes[children[j]].wins * nodes[children[i]].visits
                         < nodes[children[i]].wins * nodes[children[j]].visits
    IN  nodes[children[top]]

\* max(root.children, key=visits): the first child with the most visits.
most_visited(nodes) ==
    LET children == nodes[1].children
        top == CHOOSE i \in 1..Len(children) :
                 /\ \A j \in 1..Len(children) :
                       nodes[children[j]].visits <= nodes[children[i]].visits
                 /\ \A j \in 1..(i - 1) :
                       nodes[children[j]].visits < nodes[children[i]].visits
    IN  nodes[children[top]]

\* choose_move, lines 256-262, without the check for a root without children.
mcts_answer_unguarded(nodes) ==
    IF Len(nodes[1].children) = 0
    THEN [move |-> NoPlannedMove, raised |-> TRUE]
    ELSE [move |-> PlannedMove(most_visited(nodes).move.origin,
                               most_visited(nodes).move.target),
          raised |-> FALSE]

\* choose_move, lines 256-262: None for a root without children, else the
\* move of the most visited child.
mcts_answer(nodes) ==
    IF Len(nodes[1].children) = 0
    THEN [move |-> NoPlannedMove, raised |-> FALSE]
    ELSE [move |-> PlannedMove(most_visited(nodes).move.origin,
                               most_visited(nodes).move.target),
          raised |-> FALSE]

(***************************************************************************)
(* The lobby of the asyncio server, src/python/shologuti/lobby.py and      *)
(* server.py. A connection is a client of Clients; its PlayerSession       *)
(* object, once made, is objs[client]. A Match object is match_objs[id],   *)
(* where id is the number in "match-<id>"; lobby.matches holds the ids in  *)
(* matches. A username is the sequence of its suffixes: << >> is the       *)
(* nickname itself, <<1>> is "<nickname>_1", <<1, 1>> is "<nickname>_1_1". *)
(***************************************************************************)
\* Largest number of messages the clients send in one run.
MaxEvents == 3

\* The connections the server handles.
Clients == {"a", "b", "c"}

\* No PlayerSession, and no username.
NoClient == "nobody"

NoName == <<0>>

\* The nicknames a hello message may carry: one name and that name with "_1".
Nicknames == {<< >>, <<1>>}

\* The colour names an invite_response may carry.
Colors == {"green", "red"}

\* The (origin, target) pairs a move message may carry.
MovePayloads == {<<9, 1>>, <<1, 3>>, <<9, 8>>, <<2, 3>>, <<22, 17>>, <<16, 17>>}

\* PlayerSession(username=...), the other fields at their defaults.
PlayerSession(username) ==
    [username |-> username, status |-> "idle", match_id |-> None,
     pending_invite_from |-> NoName]

is_available(session) == session.status = "idle"

\* Match(match_id=...): fresh GameRules; players lists the entries of the
\* dict in insertion order.
Match(match_id) ==
    [match_id |-> match_id,
     rules |-> [board |-> reset_board, turn |-> TurnState],
     players |-> << >>]

\* dict item assignment on match.players: a new key goes last, an old key
\* keeps its place.
set_player(players, color, client) ==
    IF \E i \in 1..Len(players) : players[i].color = color
    THEN [i \in 1..Len(players) |->
            IF players[i].color = color THEN [color |-> color, session |-> client]
            ELSE players[i]]
    ELSE Append(players, [color |-> color, session |-> client])

\* Match.other_player: the first session with another username, or None.
other_player(objs, match, username) ==
    LET others == SelectSeq(match.players,
                            LAMBDA p : objs[p.session].username # username)
    IN  IF Len(others) = 0 THEN NoClient ELSE Head(others).session

\* Match.player_color: the colour of the first entry with the username.
player_color(objs, match, username) ==
    LET mine == SelectSeq(match.players,
                          LAMBDA p : objs[p.session].username = username)
    IN  IF Len(mine) = 0 THEN None ELSE Head(mine).color

\* match.players[color].
player_of(match, color) ==
    Head(SelectSeq(match.players, LAMBDA p : p.color = color)).session

\* A connection's task is at rest in pc, with the locals it holds across an
\* await.
Task(pc, mid, winner, other) ==
    [pc |-> pc, mid |-> mid, winner |-> winner, other |-> other]

At(pc) == Task(pc, None, None, NoClient)

\* No move message written to a client yet.
NoMessage ==
    [type |-> "none", board |-> << >>, expected |-> << >>, overtaken |-> FALSE]

\* No invite just made, none just accepted.
NoPair == << >>

\* No accepted move yet.
NoTold == [mid |-> None, to_move |-> None, messages |-> << >>]

\* Lobby.__init__, with no connection made.
Lobby ==
    [sessions |-> << >>,
     matches |-> {},
     match_objs |-> << >>,
     lock |-> NoClient,
     reserved_names |-> {},
     objs |-> [c \in Clients |-> PlayerSession(NoName)],
     task |-> [c \in Clients |-> At("handshake")],
     writes |-> {},
     wire |-> [c \in Clients |-> NoMessage],
     told |-> NoTold,
     results |-> << >>,
     invited |-> NoPair,
     answered |-> NoPair,
     events |-> 0]

\* self.sessions.get(name).
sessions_get(L, name) ==
    IF name \in DOMAIN L.sessions THEN L.sessions[name] ELSE NoClient

\* self.matches.get(match_id or "").
matches_get(L, match_id) ==
    IF match_id \in L.matches THEN match_id ELSE None

\* dict.pop(key, None).
pop_key(dict, key) == [k \in DOMAIN dict \ {key} |-> dict[k]]

\* dict item assignment.
set_key(dict, key, value) ==
    [k \in DOMAIN dict \cup {key} |-> IF k = key THEN value ELSE dict[k]]

\* One more message of a client is handled. invited is the pair (inviter,
\* target) when that message was an invite of an idle player by an idle
\* player; answered is that pair when the message is the target's acceptance
\* and the invite was the message before it.
noted(L, invited, answered) ==
    [L EXCEPT !.events = @ + 1, !.invited = invited, !.answered = answered]

RECURSIVE free_candidate(_, _, _)
\* reserve_username, the while loop: the first of base, base_1, base_2, ...
\* that is neither a session nor reserved.
free_candidate(L, base, suffix) ==
    LET candidate == IF suffix = 0 THEN base ELSE Append(base, suffix)
    IN  IF candidate \in DOMAIN L.sessions \/ candidate \in L.reserved_names
        THEN free_candidate(L, base, suffix + 1)
        ELSE candidate

\* reserve_username without the note in _reserved_names.
reserve_username_unnoted(L, client, desired) ==
    [L EXCEPT !.objs[client] = PlayerSession(free_candidate(L, desired, 0)),
              !.task[client] = At("welcome")]

\* Lobby.reserve_username, and _handshake up to the welcome message: the
\* PlayerSession is made with the name reserved.
reserve_username(L, client, desired) ==
    [L EXCEPT !.reserved_names = @ \cup {free_candidate(L, desired, 0)},
              !.objs[client] = PlayerSession(free_candidate(L, desired, 0)),
              !.task[client] = At("welcome")]

\* Lobby.add_session: under the lock, the name moves from the reserved names
\* to the sessions.
add_session(L, client) ==
    [L EXCEPT !.reserved_names = @ \ {L.objs[client].username},
              !.sessions = set_key(@, L.objs[client].username, client),
              !.task[client] = At("session_loop")]

\* Lobby.start_invite, lines 119-127.
start_invite(L, inviter, target_name) ==
    LET target == sessions_get(L, target_name)
    IN  IF target = NoClient \/ L.objs[target].username = L.objs[inviter].username
        THEN L
        ELSE IF ~is_available(L.objs[target])
        THEN L
        ELSE [L EXCEPT !.objs =
                 [[@ EXCEPT ![inviter].status = "invited"]
                     EXCEPT ![target].pending_invite_from = L.objs[inviter].username]]

\* Lobby._start_match, lines 159-175.
_start_match(L, inviter, target, color) ==
    LET match_id == Len(L.match_objs) + 1
        inviter_color == IF color = "green" THEN 2 ELSE 1
        players == set_player(set_player(<< >>, inviter_color, inviter),
                              opponent(inviter_color), target)
    IN  [L EXCEPT !.match_objs = Append(@, [Match(match_id) EXCEPT !.players = players]),
                  !.matches = @ \cup {match_id},
                  !.objs = [c \in Clients |->
                              IF c \in {inviter, target}
                              THEN [@[c] EXCEPT !.status = "playing",
                                                !.match_id = match_id]
                              ELSE @[c]]]

\* Lobby.respond_invite.
respond_invite(L, target, inviter_name, accepted, color) ==
    LET inviter == sessions_get(L, inviter_name)
        cleared == [L EXCEPT !.objs[target].pending_invite_from = NoName]
    IN  IF inviter = NoClient THEN cleared
        ELSE IF ~accepted
        THEN [cleared EXCEPT !.objs[inviter].status = "idle"]
        ELSE IF ~is_available(cleared.objs[inviter])
        THEN cleared
        ELSE _start_match(cleared, inviter, target, color)

\* BoardState.snapshot handing out the live dict of the board.
snapshot_live(b) == [value |-> b, shared |-> TRUE]

\* BoardState.snapshot: dict(self._slots), a copy that later moves leave alone.
snapshot(b) == [value |-> b, shared |-> FALSE]

\* protocol.encode of a board field: what the dict holds when it is written.
encode(payload, live) == IF payload.shared THEN live ELSE payload.value

\* handle_move, lines 232-261: the messages for the mover and the other
\* player, as write_message tasks not yet run.
move_messages(L, client, mid, out, color) ==
    LET match == L.match_objs[mid]
        other == other_player(L.objs, match, L.objs[client].username)
        accepted == [owner |-> client, to |-> client, type |-> "move_accepted",
                     mid |-> mid, board |-> snapshot(out.board),
                     expected |-> out.board,
                     color |-> color,
                     your_turn |-> IF out.result.must_continue THEN TRUE
                                   ELSE out.turn.to_move = color]
        moved == [owner |-> client, to |-> other, type |-> "opponent_moved",
                  mid |-> mid, board |-> snapshot(out.board),
                  expected |-> out.board,
                  color |-> player_color(L.objs, match, L.objs[other].username),
                  your_turn |-> out.turn.to_move
                                  = player_color(L.objs, match, L.objs[other].username)]
    IN  IF other = NoClient THEN <<accepted>> ELSE <<accepted, moved>>

\* handle_move, lines 221-263, for the match found: a rejected move is
\* answered and the handler returns; an accepted one is applied, snapshot and
\* messages are made, and the handler waits for the writes.
moved_in(L, client, mid, out, color) ==
    IF ~out.result.legal THEN L
    ELSE [L EXCEPT !.match_objs[mid].rules = [board |-> out.board, turn |-> out.turn],
                   !.writes = @ \cup Range(move_messages(L, client, mid, out, color)),
                   !.told = [mid |-> mid, to_move |-> out.turn.to_move,
                             messages |-> move_messages(L, client, mid, out, color)],
                   !.task[client] = Task("gather_moves", mid, out.result.winner, NoClient)]

\* Lobby.handle_move up to the await of line 263.
handle_move(L, session, origin, target) ==
    LET mid == matches_get(L, L.objs[session].match_id)
        color == player_color(L.objs, L.match_objs[mid], L.objs[session].username)
    IN  IF mid = None THEN L
        ELSE IF color = None THEN L
        ELSE moved_in(L, session, mid,
                      apply_player_move(L.match_objs[mid].rules.board,
                                        L.match_objs[mid].rules.turn,
                                        color, origin, target),
                      color)

\* write_message run by the event loop: the message is encoded as the board
\* it refers to is now, and handed to the writer. expected is the board as
\* the move of the message left it; overtaken says that the match has moved
\* on since.
write_message(L, message) ==
    [L EXCEPT !.writes = @ \ {message},
              !.wire[message.to] =
                  [type |-> message.type,
                   board |-> encode(message.board, L.match_objs[message.mid].rules.board),
                   expected |-> message.expected,
                   overtaken |-> L.match_objs[message.mid].rules.board
                                   # message.expected]]

\* One more match_result for the session in the match, counted up to 2.
result_sent(results, mid, client) ==
    LET key == <<mid, client>>
    IN  set_key(results, key, IF key \in DOMAIN results THEN Min(results[key] + 1, 2) ELSE 1)

\* _finish_match, lines 296-319: the players go idle, the winner and the
\* losers are written a match_result, and the handler waits for the writes.
_finish_match(L, client, mid, winner) ==
    LET match == L.match_objs[mid]
        players == {match.players[i].session : i \in 1..Len(match.players)}
        losers == SelectSeq(match.players, LAMBDA p : p.color # winner)
        receivers == <<player_of(match, winner)>>
                       \o [i \in 1..Len(losers) |-> losers[i].session]
    IN  [L EXCEPT !.objs = [c \in Clients |->
                              IF c \in players
                              THEN [@[c] EXCEPT !.status = "idle", !.match_id = None]
                              ELSE @[c]],
                  !.results = IF Len(receivers) = 2
                              THEN result_sent(result_sent(@, mid, receivers[1]),
                                               mid, receivers[2])
                              ELSE result_sent(@, mid, receivers[1]),
                  !.task[client] = Task("gather_results", mid, None, NoClient)]

\* handle_move resumed after the await of line 263, holding the match it
\* looked up before and, with it, the players listed there.
move_sent(L, client) ==
    IF L.task[client].winner # None
    THEN _finish_match(L, client, L.task[client].mid, L.task[client].winner)
    ELSE [L EXCEPT !.task[client] = At("session_loop")]

\* _finish_match, lines 321-322, after the await.
finish_sent(L, client) ==
    [L EXCEPT !.matches = @ \ {L.task[client].mid},
              !.task[client] = At("session_loop")]

\* Lobby.resign.
resign(L, session) ==
    LET mid == matches_get(L, L.objs[session].match_id)
        color == player_color(L.objs, L.match_objs[mid], L.objs[session].username)
    IN  IF mid = None THEN L
        ELSE _finish_match(L, session, mid,
                           opponent(IF color = None THEN 1 ELSE color))

\* remove_session, lines 77-83, and _handle_player_disconnect up to its
\* await: the lock is taken, the name is dropped; with a match and another
\* player in it, that player is written to and the handler waits.
remove_session(L, session) ==
    LET dropped == [L EXCEPT !.sessions = pop_key(@, L.objs[session].username),
                             !.reserved_names = @ \ {L.objs[session].username}]
        mid == IF L.objs[session].match_id = None THEN None
               ELSE matches_get(L, L.objs[session].match_id)
        other == other_player(L.objs, L.match_objs[mid], L.objs[session].username)
    IN  IF mid = None
        THEN [dropped EXCEPT !.task[session] = At("closed")]
        ELSE IF other = NoClient
        THEN [dropped EXCEPT !.matches = @ \ {mid}, !.task[session] = At("closed")]
        ELSE [dropped EXCEPT !.lock = session,
                             !.task[session] = Task("disconnect", mid, None, other)]

\* _handle_player_disconnect, lines 331-333, and the release of the lock.
_handle_player_disconnect(L, session) ==
    [L EXCEPT !.objs[L.task[session].other].status = "idle",
              !.objs[L.task[session].other].match_id = None,
              !.matches = @ \ {L.task[session].mid},
              !.lock = NoClient,
              !.task[session] = At("closed")]

VARIABLES
    op,         \* the operation that produced the state
    board,      \* GameRules.board: node -> occupant
    turn,       \* GameRules.turn: to_move and pending_capture_from
    result,     \* the MoveResult the last call returned
    moves,      \* number of calls accepted so far
    last_move,  \* player, origin and target of the last accepted call
    before,     \* board and turn as the last call found them
    call,       \* the last apply_player_move call: a node outside 1..37, an exception
    agent,      \* the last choose_move call and its answer
    tree,       \* the MCTS search in progress
    lobby       \* the Lobby of the server, its sessions, matches and tasks

vars == <<op, board, turn, result, moves, last_move, before, call, agent, tree, lobby>>

\* Positions a match passes through, each with the side to move.  The first
\* is the fresh match; the others were reached by replaying legal move
\* sequences from the fresh match through GameRules.apply_player_move.
PiecesBoard(red, green) ==
    [i \in Nodes |-> IF i \in red THEN 1 ELSE IF i \in green THEN 2 ELSE None]

StartPositions ==
    { [board |-> reset_board, to_move |-> 2],
      [board |-> PiecesBoard({2, 4}, {9}), to_move |-> 2],
      [board |-> PiecesBoard({1, 2, 5, 9}, {6}), to_move |-> 2] }

\* Integers a caller may pass for a node: 1..37 and one on either side.
CallNodes == 0..(NumNodes + 1)

\* No apply_player_move call made yet.
NoCall == [outside |-> FALSE, raised |-> FALSE]

\* No choose_move call made yet.
NoAgent == [kind |-> "none", player |-> None, effort |-> 0,
            move |-> NoPlannedMove, raised |-> FALSE]

\* No search in progress.
NoTree == << >>

\* The MoveResult slot before any call of the match.
NoCallYet == MoveResult(TRUE, None, FALSE, None, NoError)

NoMove == [player |-> None, origin |-> None, target |-> None]

Init ==
    /\ op = "init"
    /\ \E s \in StartPositions :
          /\ board = s.board
          /\ turn = [to_move |-> s.to_move, pending_capture_from |-> None]
    /\ result = NoCallYet
    /\ moves = 0
    /\ last_move = NoMove
    /\ before = [board |-> board, turn |-> turn]
    /\ call = NoCall
    /\ agent = NoAgent
    /\ tree = NoTree
    /\ lobby = Lobby

\* What one call does to the variables, given what apply_player_move returned.
Returned(player, origin, target, out) ==
    /\ op' = "apply_player_move"
    /\ board' = out.board
    /\ turn' = out.turn
    /\ result' = out.result
    /\ moves' = IF out.result.legal THEN moves + 1 ELSE moves
    /\ last_move' = IF out.result.legal
                    THEN [player |-> player, origin |-> origin, target |-> target]
                    ELSE last_move
    /\ before' = [board |-> board, turn |-> turn]
    /\ call' = [outside |-> origin \notin Nodes \/ target \notin Nodes,
                raised  |-> FALSE]
    /\ agent' = NoAgent
    /\ tree' = NoTree
    /\ lobby' = lobby

\* What one call does to the variables when it raises: no MoveResult comes
\* back, and the exception leaves neighbors() before anything is written.
Raised(origin, target) ==
    /\ op' = "apply_player_move"
    /\ call' = [outside |-> origin \notin Nodes \/ target \notin Nodes,
                raised  |-> TRUE]
    /\ before' = [board |-> board, turn |-> turn]
    /\ agent' = NoAgent
    /\ tree' = NoTree
    /\ lobby' = lobby
    /\ UNCHANGED <<board, turn, result, moves, last_move>>

\* One apply_player_move call, returning or raising.
Called(player, origin, target) ==
    IF apply_player_move_raises(board, turn, player, origin, target)
    THEN Raised(origin, target)
    ELSE Returned(player, origin, target,
                  apply_player_move(board, turn, player, origin, target))

\* One apply_player_move call with arbitrary arguments.
ApplyPlayerMove(player, origin, target) ==
    /\ moves < MaxMoves
    /\ Called(player, origin, target)

\* What GameRules.reset leaves: a new match, no call made in it yet.
WasReset(out) ==
    /\ op' = "reset"
    /\ board' = out.board
    /\ turn' = out.turn
    /\ result' = NoCallYet
    /\ moves' = 0
    /\ last_move' = NoMove
    /\ before' = [board |-> out.board, turn |-> out.turn]
    /\ call' = NoCall
    /\ agent' = NoAgent
    /\ tree' = NoTree
    /\ lobby' = lobby

\* One GameRules.reset call.
Reset == WasReset(GameRules_reset(board, turn))

Next ==
    \/ \E player \in Players, origin \in Nodes, target \in Nodes :
          ApplyPlayerMove(player, origin, target)
    \/ Reset

Spec == Init /\ [][Next]_vars

\* A caller that passes any integers to apply_player_move, from the two late
\* positions of StartPositions on.
CallsInit ==
    /\ Init
    /\ board # reset_board

\* One apply_player_move call, the nodes being any integers.
AnyCall(player, origin, target) ==
    /\ moves < MaxPlies
    /\ Called(player, origin, target)

CallsNext ==
    \E player \in Players, origin \in CallNodes, target \in CallNodes :
       AnyCall(player, origin, target)

SpecCalls == CallsInit /\ [][CallsNext]_vars

\* Positions of a match, reached by accepted moves, in which green can capture
\* several times in a row: three pieces in a chain with a fourth out of reach,
\* two pieces whose capture wins, and a chain that forks.
ChainPositions ==
    { PiecesBoard({2, 6, 13, 20}, {1}),
      PiecesBoard({2, 6}, {1}),
      PiecesBoard({2, 6, 13, 14}, {1}) }

\* A match taken up in one of the chain positions, green to move.
ChainsInit ==
    /\ op = "init"
    /\ board \in ChainPositions
    /\ turn = TurnState
    /\ result = NoCallYet
    /\ moves = 0
    /\ last_move = NoMove
    /\ before = [board |-> board, turn |-> turn]
    /\ call = NoCall
    /\ agent = NoAgent
    /\ tree = NoTree
    /\ lobby = Lobby

ChainsNext ==
    \E player \in Players, origin \in Nodes, target \in Nodes :
       ApplyPlayerMove(player, origin, target)

SpecChains == ChainsInit /\ [][ChainsNext]_vars

\* The GameRules value after apply_player_move(player, origin, target) on state.
replay(state, player, origin, target) ==
    [board |-> apply_player_move(state.board, state.turn, player, origin, target).board,
     turn  |-> apply_player_move(state.board, state.turn, player, origin, target).turn]

\* The late position of StartPositions in which green can capture twice.
CapturePosition ==
    [board |-> PiecesBoard({2, 4}, {9}), turn |-> TurnState]

\* The late position of StartPositions from which green can be blocked.
BlockadePosition ==
    [board |-> PiecesBoard({1, 2, 5, 9}, {6}), turn |-> TurnState]

(***************************************************************************)
(* The server at work: one task per connection (server.py, _handle_client) *)
(* that runs the handshake, then handles the client's messages one after   *)
(* another, and gives way to the other tasks at its awaits.                *)
(***************************************************************************)
\* Three players connected and idle: each said hello with the same nickname.
Connected ==
    [Lobby EXCEPT !.sessions = (<< >> :> "a") @@ (<<1>> :> "b") @@ (<<2>> :> "c"),
                  !.objs = ("a" :> PlayerSession(<< >>)) @@ ("b" :> PlayerSession(<<1>>))
                             @@ ("c" :> PlayerSession(<<2>>)),
                  !.task = [c \in Clients |-> At("session_loop")]]

\* A match of "a" (green) and "b" (red) that has come to CapturePosition.
Playing ==
    [_start_match(Connected, "a", "b", "green")
        EXCEPT !.match_objs[1].rules = CapturePosition]

\* The lobbies a run starts from: the new one and two it comes to.
LobbyStarts == {Lobby, Connected, Playing}

LobbyInit ==
    /\ op = "init"
    /\ board = reset_board
    /\ turn = TurnState
    /\ result = NoCallYet
    /\ moves = 0
    /\ last_move = NoMove
    /\ before = [board |-> board, turn |-> turn]
    /\ call = NoCall
    /\ agent = NoAgent
    /\ tree = NoTree
    /\ lobby \in LobbyStarts

\* A step of the server leaves the lobby as L.
Served(L) ==
    /\ lobby' = L
    /\ UNCHANGED <<op, board, turn, result, moves, last_move, before, call, agent, tree>>

\* A step that is not the handling of a new message.
resumed(L) == [L EXCEPT !.invited = NoPair, !.answered = NoPair]

\* The usernames a message may name: those given out so far.
Usernames == {lobby.objs[c].username : c \in Clients} \ {NoName}

\* The task of the client reads a message in _session_loop.
Reading(client) ==
    /\ lobby.task[client].pc = "session_loop"
    /\ lobby.events < MaxEvents

\* _handshake: a hello arrives and a username is reserved under the lock.
Hello(client, desired) ==
    /\ lobby.task[client].pc = "handshake"
    /\ lobby.events < MaxEvents
    /\ lobby.lock = NoClient
    /\ Served(noted(reserve_username(lobby, client, desired), NoPair, NoPair))

\* _handle_client after the welcome message: add_session under the lock.
AddSession(client) ==
    /\ lobby.task[client].pc = "welcome"
    /\ lobby.lock = NoClient
    /\ Served(resumed(add_session(lobby, client)))

\* An invite of an idle player by an idle player.
invite_made(L, client, target_name) ==
    IF /\ is_available(L.objs[client])
       /\ sessions_get(L, target_name) # NoClient
       /\ sessions_get(L, target_name) # client
       /\ is_available(L.objs[sessions_get(L, target_name)])
    THEN <<client, sessions_get(L, target_name)>>
    ELSE NoPair

\* The acceptance, by its target, of the invite made by the message before.
invite_answered(L, client, inviter_name, accepted) ==
    IF /\ accepted
       /\ L.invited # NoPair
       /\ L.invited = <<sessions_get(L, inviter_name), client>>
    THEN L.invited
    ELSE NoPair

\* _session_loop, "invite".
Invite(client, target_name) ==
    /\ Reading(client)
    /\ Served(noted(start_invite(lobby, client, target_name),
                    invite_made(lobby, client, target_name), NoPair))

\* _session_loop, "invite_response".
InviteResponse(client, inviter_name, accepted, color) ==
    /\ Reading(client)
    /\ Served(noted(respond_invite(lobby, client, inviter_name, accepted, color),
                    NoPair,
                    invite_answered(lobby, client, inviter_name, accepted)))

\* _session_loop, "move".
Move(client, origin, target) ==
    /\ Reading(client)
    /\ Served(noted(handle_move(lobby, client, origin, target), NoPair, NoPair))

\* _session_loop, "resign".
Resign(client) ==
    /\ Reading(client)
    /\ Served(noted(resign(lobby, client), NoPair, NoPair))

\* _session_loop ends (logout, or the connection is lost) and remove_session
\* takes the lock.
Disconnect(client) ==
    /\ Reading(client)
    /\ lobby.lock = NoClient
    /\ Served(noted(remove_session(lobby, client), NoPair, NoPair))

\* remove_session goes on after the write to the other player.
Disconnected(client) ==
    /\ lobby.task[client].pc = "disconnect"
    /\ Served(resumed(_handle_player_disconnect(lobby, client)))

\* The event loop runs one of the write_message tasks of a gather.
WriteMessage(message) ==
    /\ message \in lobby.writes
    /\ Served(resumed(write_message(lobby, message)))

\* The gather of handle_move is done: all its writes have run.
MoveSent(client) ==
    /\ lobby.task[client].pc = "gather_moves"
    /\ \A message \in lobby.writes : message.owner # client
    /\ Served(resumed(move_sent(lobby, client)))

\* The gather of _finish_match is done.
FinishSent(client) ==
    /\ lobby.task[client].pc = "gather_results"
    /\ Served(resumed(finish_sent(lobby, client)))

LobbyNext ==
    \E client \in Clients :
       \/ \E desired \in Nicknames : Hello(client, desired)
       \/ AddSession(client)
       \/ \E target_name \in Usernames : Invite(client, target_name)
       \/ \E inviter_name \in Usernames, accepted \in BOOLEAN, color \in Colors :
             InviteResponse(client, inviter_name, accepted, color)
       \/ \E payload \in MovePayloads : Move(client, payload[1], payload[2])
       \/ Resign(client)
       \/ Disconnect(client)
       \/ Disconnected(client)
       \/ \E message \in lobby.writes : WriteMessage(message)
       \/ MoveSent(client)
       \/ FinishSent(client)

SpecLobby == LobbyInit /\ [][LobbyNext]_vars

\* The states the agents are asked in: the fresh match, the two late
\* positions, and the states apply_player_move makes of them: a capture
\* pending with one legal move, a colour without pieces, a side to move that
\* loses its last piece whatever it plays, a side to move with several moves,
\* and a side to move with pieces and no move.
AgentPositions ==
    { [board |-> reset_board, turn |-> TurnState],
      CapturePosition,
      replay(CapturePosition, 2, 9, 1),
      replay(replay(CapturePosition, 2, 9, 1), 2, 1, 3),
      replay(replay(CapturePosition, 2, 9, 5), 1, 2, 3),
      BlockadePosition,
      replay(BlockadePosition, 2, 6, 3),
      replay(replay(BlockadePosition, 2, 6, 3), 1, 5, 6) }

AgentsInit ==
    /\ op = "init"
    /\ \E s \in AgentPositions : board = s.board /\ turn = s.turn
    /\ result = NoCallYet
    /\ moves = 0
    /\ last_move = NoMove
    /\ before = [board |-> board, turn |-> turn]
    /\ call = NoCall
    /\ agent = NoAgent
    /\ tree = NoTree
    /\ lobby = Lobby

\* What a choose_move call leaves: the answer, and the given object as the
\* call left it.
Answered(kind, self, effort, given, move, raised) ==
    /\ op' = kind
    /\ board' = given.board
    /\ turn' = given.turn
    /\ before' = [board |-> board, turn |-> turn]
    /\ agent' = [kind |-> kind, player |-> self, effort |-> effort,
                 move |-> move, raised |-> raised]
    /\ tree' = NoTree
    /\ lobby' = lobby
    /\ UNCHANGED <<result, moves, last_move, call>>

\* MinimaxAgent(self, depth).choose_move(state) on the caller's GameRules.
MinimaxChoose(self, depth) ==
    /\ op = "init"
    /\ LET out == MinimaxAgent_choose_move(self, depth,
                                           <<[board |-> board, turn |-> turn]>>, Given)
       IN  Answered("minimax", self, depth, out.heap[Given], out.move,
                    _generate_moves_raises([board |-> board, turn |-> turn], None))

\* What a step of the MCTS search leaves: the tree t, and the given object.
Searching(self, effort, t, raised) ==
    /\ op' = "mcts_search"
    /\ board' = t.heap[Given].board
    /\ turn' = t.heap[Given].turn
    /\ agent' = [kind |-> "mcts", player |-> self, effort |-> effort,
                 move |-> NoPlannedMove, raised |-> raised]
    /\ tree' = t
    /\ lobby' = lobby
    /\ UNCHANGED <<result, moves, last_move, call>>

\* MCTSAgent(self, iterations).choose_move(state) up to the for loop; the
\* constructor has made the iteration count at least 1.
MCTSStart(self, iterations) ==
    /\ op = "init"
    /\ before' = [board |-> board, turn |-> turn]
    /\ Searching(self, Max(1, iterations),
                 root_node(deepcopy(<<[board |-> board, turn |-> turn]>>, Given)),
                 _generate_moves_raises([board |-> board, turn |-> turn], None))

\* One pass of the for loop of MCTSAgent.choose_move.
MCTSIterate ==
    /\ op = "mcts_search"
    /\ tree.done < agent.effort
    /\ \E n \in selected(tree.heap, tree.nodes, 1) :
          \E t \in iteration(agent.player, tree, n) :
             Searching(agent.player, agent.effort, t,
                       \/ agent.raised
                       \/ \E m \in ancestors(tree.nodes, n) :
                             best_child_raises(tree.nodes, m))
    /\ UNCHANGED before

\* MCTSAgent.choose_move after the for loop.
MCTSAnswer ==
    /\ op = "mcts_search"
    /\ tree.done = agent.effort
    /\ Answered("mcts", agent.player, agent.effort, tree.heap[Given],
                mcts_answer(tree.nodes).move,
                agent.raised \/ mcts_answer(tree.nodes).raised)

AgentsNext ==
    \/ \E self \in Players, depth \in 1..MaxDepth : MinimaxChoose(self, depth)
    \/ \E self \in Players, iterations \in 0..MaxIterations :
          MCTSStart(self, iterations)
    \/ MCTSIterate
    \/ MCTSAnswer

SpecAgents == AgentsInit /\ [][AgentsNext]_vars

(***************************************************************************)
(* Shorthands for the properties below.                                    *)
(***************************************************************************)
pending == turn.pending_capture_from

\* What apply_player_move would return in the current state.
Outcome(player, origin, target) ==
    apply_player_move(board, turn, player, origin, target)

\* The last call was accepted (it returned legal = true).
Accepted == moves > 0 /\ result.legal

\* The last call was rejected.
Rejected == ~result.legal

\* The edges <<neighbor, landing>> of origin over which player can capture.
CaptureEdges(b, origin, player) ==
    {e \in Range(RAW_ADJACENCY[origin]) :
        /\ e[2] # None
        /\ b[e[1]] = opponent(player)
        /\ b[e[2]] = None}

\* Pieces of colour p that the last call took off the board.
Dropped(p) == remaining(before.board, p) - remaining(board, p)

\* C1: a call that returns legal = false (not_your_turn, must_continue_capture
\* or illegal_move) leaves the board, to_move and pending_capture_from as
\* they were before the call.
C1_RejectedCallChangesNothing ==
    Rejected =>
        /\ result.error \in {"not_your_turn", "must_continue_capture", "illegal_move"}
        /\ board = before.board
        /\ turn.to_move = before.turn.to_move
        /\ pending = before.turn.pending_capture_from

C1_Witness ==
    /\ Rejected
    /\ result.error = "illegal_move"
    /\ moves > 0

\* C2 as stated: after every accepted move, a capture available from the
\* landing node means must_continue = true and to_move unchanged; otherwise
\* to_move flips and pending_capture_from is cleared.
C2_Original ==
    Accepted =>
        IF Len(capture_moves(board, last_move.target, last_move.player)) > 0
        THEN result.must_continue /\ turn.to_move = before.turn.to_move
        ELSE turn.to_move = opponent(before.turn.to_move) /\ pending = None

\* C2 amended: after every accepted move, if the move was a capture and a
\* further capture is available from the landing node, must_continue = true,
\* to_move is unchanged and pending_capture_from is the landing node;
\* otherwise must_continue = false, to_move flips to the opponent and
\* pending_capture_from is cleared.
C2_ChainOnlyAfterCapture ==
    Accepted =>
        IF /\ result.captured # None
           /\ Len(capture_moves(board, last_move.target, last_move.player)) > 0
        THEN /\ result.must_continue
             /\ turn.to_move = before.turn.to_move
             /\ pending = last_move.target
        ELSE /\ ~result.must_continue
             /\ turn.to_move = opponent(before.turn.to_move)
             /\ pending = None

C2_Witness ==
    /\ Accepted
    /\ result.must_continue
    /\ pending = last_move.target
    /\ turn.to_move = last_move.player

\* C3: whenever pending_capture_from is set, that node holds a piece of the
\* colour to move and a capture exists from it; and when a call sets it, it
\* sets it to the landing node of the capture that call made for the player
\* who was, and stays, to move.
C3_PendingIsLiveCapture ==
    /\ pending # None =>
          /\ occupant(board, pending) = turn.to_move
          /\ CaptureEdges(board, pending, turn.to_move) # {}
    /\ pending # None /\ pending # before.turn.pending_capture_from =>
          /\ Accepted
          /\ result.captured # None
          /\ pending = last_move.target
          /\ last_move.player = before.turn.to_move
          /\ turn.to_move = before.turn.to_move

C3_Witness ==
    /\ pending # None
    /\ Accepted
    /\ result.captured # None
    /\ pending = last_move.target
    /\ before.turn.pending_capture_from = None

\* C4: while pending_capture_from = X, every call by the player to move with
\* an origin other than X is rejected with must_continue_capture, and from X
\* exactly the capture targets are accepted; any other target from X is
\* rejected with illegal_move.
C4_PendingForcesOriginAndCapture ==
    pending # None =>
        \A origin \in Nodes, target \in Nodes :
            LET out == Outcome(turn.to_move, origin, target).result
                hop == \E e \in CaptureEdges(board, pending, turn.to_move) : e[2] = target
            IN  IF origin # pending
                THEN ~out.legal /\ out.error = "must_continue_capture"
                ELSE IF hop
                THEN out.legal /\ out.captured # None
                ELSE ~out.legal /\ out.error = "illegal_move"

C4_Witness ==
    /\ pending # None
    /\ Rejected
    /\ result.error = "must_continue_capture"

\* C5: remaining(1) + remaining(2) never increases; an accepted capture
\* lowers it by exactly 1 and only the non-moving colour's count drops; an
\* accepted simple move and a rejected call leave both counts unchanged.
C5_PiecesOnlyLeaveByCapture ==
    /\ Dropped(1) + Dropped(2) >= 0
    /\ Accepted /\ result.captured # None =>
          Dropped(last_move.player) = 0 /\ Dropped(opponent(last_move.player)) = 1
    /\ Accepted /\ result.captured = None => Dropped(1) = 0 /\ Dropped(2) = 0
    /\ Rejected => Dropped(1) = 0 /\ Dropped(2) = 0

C5_Witness ==
    /\ Accepted
    /\ result.captured # None
    /\ Dropped(1) + Dropped(2) = 1

\* The player to move has no call that apply_player_move would accept.
NoLegalMove ==
    \A origin \in Nodes, target \in Nodes :
        ~Outcome(turn.to_move, origin, target).result.legal

\* C6: after every accepted move, if a colour has no piece left, or the
\* player to move has no legal move anywhere on the board, the move's result
\* carries the opponent as winner.
C6_Claim ==
    Accepted =>
        /\ \A p \in Players : remaining(board, p) = 0 => result.winner = opponent(p)
        /\ NoLegalMove => result.winner = opponent(turn.to_move)

\* C7: an accepted move reports winner = the mover exactly when its capture
\* removes the opponent's last piece; with both colours still on the board
\* the winner is None; and a reported winner comes with must_continue = false
\* and pending_capture_from = None.
C7_WinnerIffLastPieceCaptured ==
    Accepted =>
        /\ result.winner = last_move.player <=>
              /\ result.captured # None
              /\ remaining(before.board, opponent(last_move.player)) = 1
              /\ remaining(board, opponent(last_move.player)) = 0
        /\ remaining(board, 1) > 0 /\ remaining(board, 2) > 0 =>
              result.winner = None
        /\ result.winner # None =>
              ~result.must_continue /\ pending = None

C7_Witness ==
    /\ Accepted
    /\ result.winner = last_move.player
    /\ remaining(board, opponent(last_move.player)) = 0

\* C8: a call by the player who is not to move returns not_your_turn for
\* every origin and target, with or without a pending capture; for the
\* player to move with a capture pending, a wrong origin returns
\* must_continue_capture whatever the target (that check runs before move
\* legality), and illegal_move is reported only after both checks pass.
C8_ErrorPrecedence ==
    \A player \in Players, origin \in Nodes, target \in Nodes :
        LET out == Outcome(player, origin, target).result
        IN  /\ player # turn.to_move =>
                  ~out.legal /\ out.error = "not_your_turn"
            /\ player = turn.to_move /\ pending # None /\ origin # pending =>
                  ~out.legal /\ out.error = "must_continue_capture"
            /\ out.error = "illegal_move" =>
                  player = turn.to_move /\ (pending = None \/ origin = pending)

C8_Witness ==
    /\ pending # None
    /\ Rejected
    /\ result.error = "not_your_turn"

\* C9: for every accepted capture, the captured node is the neighbour on an
\* edge of the origin whose landing is the target; it holds an opponent piece
\* before the move and is empty after, the origin is empty after and the
\* target holds the mover's piece.
C9_CaptureHopsOverOpponent ==
    Accepted /\ result.captured # None =>
        /\ <<result.captured, last_move.target>> \in Range(RAW_ADJACENCY[last_move.origin])
        /\ before.board[result.captured] = opponent(last_move.player)
        /\ board[result.captured] = None
        /\ board[last_move.origin] = None
        /\ board[last_move.target] = last_move.player

C9_Witness ==
    /\ Accepted
    /\ result.captured # None
    /\ before.board[result.captured] = opponent(last_move.player)
    /\ board[result.captured] = None
    /\ board[last_move.target] = last_move.player

\* C10: capture_moves(origin, player) is exactly the options (origin,
\* landing, neighbour) of the edges of origin that have a landing, whose
\* neighbour holds an opponent piece and whose landing is empty, and is empty
\* when origin is not held by player; with 9 held by colour 2, 4 by colour 1
\* and 1 empty it contains (9, 1, 4).
C10_CaptureMovesExact ==
    /\ \A origin \in Nodes, player \in Players :
          LET got == capture_moves(board, origin, player)
          IN  /\ Range(got) =
                    IF board[origin] = player
                    THEN {MoveOption(origin, e[2], e[1]) :
                             e \in CaptureEdges(board, origin, player)}
                    ELSE {}
              /\ Cardinality(Range(got)) = Len(got)
    /\ board[9] = 2 /\ board[4] = 1 /\ board[1] = None =>
          MoveOption(9, 1, 4) \in Range(capture_moves(board, 9, 2))

C10_Witness ==
    /\ Accepted
    /\ before.board[9] = 2 /\ before.board[4] = 1 /\ before.board[1] = None
    /\ last_move = [player |-> 2, origin |-> 9, target |-> 1]
    /\ result.captured = 4

\* The accepted calls of the player to move, as (origin, target) pairs.
AcceptedPairs ==
    {pair \in Nodes \X Nodes : Outcome(turn.to_move, pair[1], pair[2]).result.legal}

\* The simple-move options of origin for player, from the adjacency table.
SimpleOptions(b, origin, player) ==
    IF b[origin] # player THEN {}
    ELSE {MoveOption(origin, e[1], None) :
             e \in {x \in Range(RAW_ADJACENCY[origin]) : b[x[1]] = None}}

\* The capture options of origin for player, from the adjacency table.
CaptureOptions(b, origin, player) ==
    IF b[origin] # player THEN {}
    ELSE {MoveOption(origin, e[2], e[1]) : e \in CaptureEdges(b, origin, player)}

\* C11: legal_moves with require_capture is exactly the capture set, and
\* without it the captures together with the simple moves; so with no
\* capture pending the player to move may make any simple move, also from an
\* origin that has a capture.
C11_InitialCaptureOptional ==
    /\ \A origin \in Nodes, player \in Players :
          /\ Range(legal_moves(board, origin, player, TRUE)) =
                CaptureOptions(board, origin, player)
          /\ Range(legal_moves(board, origin, player, FALSE)) =
                CaptureOptions(board, origin, player) \cup
                SimpleOptions(board, origin, player)
    /\ pending = None =>
          \A origin \in Nodes :
             \A option \in SimpleOptions(board, origin, turn.to_move) :
                LET out == Outcome(turn.to_move, origin, option.target).result
                IN  out.legal /\ out.captured = None

C11_Witness ==
    /\ Accepted
    /\ result.captured = None
    /\ before.turn.pending_capture_from = None
    /\ CaptureOptions(before.board, last_move.origin, last_move.player) # {}

\* C17: a fresh GameRules, and a GameRules after reset(), has colour 1 on
\* nodes 1-16, colour 2 on nodes 22-37, nodes 17-21 empty, to_move = 2 and
\* pending_capture_from = None.
C17_ResetGivesFreshMatch ==
    op = "reset" =>
        /\ DOMAIN board = 1..37
        /\ \A n \in 1..16 : board[n] = 1
        /\ \A n \in 17..21 : board[n] = None
        /\ \A n \in 22..37 : board[n] = 2
        /\ turn.to_move = 2
        /\ pending = None

C17_Witness ==
    /\ op = "reset"
    /\ board = reset_board
    /\ turn = TurnState

\* C18: the board always has exactly the slots 1..37, each empty or holding
\* colour 1 or 2, and every neighbour and landing of the adjacency table is
\* one of the nodes 1..37.
C18_ThirtySevenSlots ==
    /\ DOMAIN board = 1..37
    /\ \A n \in DOMAIN board : board[n] \in {None, 1, 2}
    /\ DOMAIN RAW_ADJACENCY = 1..37
    /\ \A n \in 1..37 : \A e \in Range(RAW_ADJACENCY[n]) :
          e[1] \in 1..37 /\ e[2] \in {None} \cup 1..37

C18_Witness ==
    /\ Accepted
    /\ result.captured # None
    /\ moves = MaxMoves
    /\ DOMAIN board = 1..37

\* The (origin, target) pairs of a list of move options.
Pairs(options) == {<<m.origin, m.target>> : m \in Range(options)}

\* What the agents enumerate for the side to move in the current state.
Candidates == _generate_moves([board |-> board, turn |-> turn], None)

\* A capture is available to the player to move somewhere on the board.
CaptureAvailable ==
    \E origin \in Nodes : CaptureOptions(board, origin, turn.to_move) # {}

\* C20 as stated: the candidates of the side to move are exactly the pairs
\* apply_player_move would accept.
C20_Original == Pairs(Candidates) = AcceptedPairs

\* What the candidates are: every candidate is a pair apply_player_move would
\* accept; with a capture pending, or with no capture available to the side to
\* move, they are exactly the accepted pairs; with no capture pending and a
\* capture available they are exactly the accepted pairs that capture.
CandidatesAreAcceptedCapturesFirst ==
    /\ Pairs(Candidates) \subseteq AcceptedPairs
    /\ pending # None \/ ~CaptureAvailable => Pairs(Candidates) = AcceptedPairs
    /\ pending = None /\ CaptureAvailable =>
          Pairs(Candidates) =
             {pair \in AcceptedPairs :
                 Outcome(turn.to_move, pair[1], pair[2]).result.captured # None}
    /\ Len(Candidates) = Cardinality(Pairs(Candidates))

\* C16: apply_player_move returns a MoveResult and never raises, for either
\* player and any integer origin and target; a call naming a node outside
\* 1..37 is answered legal = false with an error reason, and changes nothing.
C16_NeverRaises ==
    /\ ~call.raised
    /\ \A player \in Players, origin \in CallNodes, target \in CallNodes :
          ~apply_player_move_raises(board, turn, player, origin, target)
    /\ op = "apply_player_move" /\ call.outside =>
          /\ ~result.legal
          /\ result.error \in {"not_your_turn", "must_continue_capture", "illegal_move"}
          /\ board = before.board
          /\ turn = before.turn

C16_Witness ==
    /\ op = "apply_player_move"
    /\ call.outside
    /\ ~call.raised
    /\ result.error = "illegal_move"
    /\ moves > 0

\* The calls apply_player_move would accept on state from the side to move.
AcceptedPairsOf(state) ==
    {pair \in Nodes \X Nodes :
        apply_player_move(state.board, state.turn, state.turn.to_move,
                          pair[1], pair[2]).result.legal}

\* An agent has answered the last choose_move call.
AgentAnswered == op \in {"minimax", "mcts"}

\* The answer as an (origin, target) pair.
Answer == <<agent.move.origin, agent.move.target>>

\* C12: MinimaxAgent.choose_move and MCTSAgent.choose_move leave the
\* GameRules they are given as they found it: board, to_move and
\* pending_capture_from are the same during and after the call, for every
\* depth and iteration count.
C12_AgentsLeaveStateAlone ==
    op \in {"minimax", "mcts_search", "mcts"} =>
        /\ board = before.board
        /\ turn = before.turn

C12_Witness ==
    /\ AgentAnswered
    /\ agent.effort > 1
    /\ agent.move # NoPlannedMove
    /\ board = before.board
    /\ turn = before.turn

\* C13: when the agent's colour is to move and a legal move exists,
\* MinimaxAgent.choose_move answers a move apply_player_move accepts on the
\* given state, at every depth from 1 on; when exactly one legal move exists
\* the answer is that move.
C13_MinimaxAnswersLegalMove ==
    /\ op = "minimax"
    /\ agent.player = before.turn.to_move
    /\ AcceptedPairsOf(before) # {}
    => /\ Answer \in AcceptedPairsOf(before)
       /\ Cardinality(AcceptedPairsOf(before)) = 1 => AcceptedPairsOf(before) = {Answer}

C13_Witness ==
    /\ op = "minimax"
    /\ agent.player = before.turn.to_move
    /\ Cardinality(AcceptedPairsOf(before)) = 1
    /\ AcceptedPairsOf(before) = {Answer}

\* C14: when a legal move exists for the side to move,
\* MCTSAgent.choose_move answers a move apply_player_move accepts on the given
\* state, whatever the random choices and also with a single iteration.
C14_MCTSAnswersLegalMove ==
    op = "mcts" /\ AcceptedPairsOf(before) # {} =>
        Answer \in AcceptedPairsOf(before)

C14_Witness ==
    /\ op = "mcts"
    /\ agent.effort = 1
    /\ Cardinality(AcceptedPairsOf(before)) > 1
    /\ Answer \in AcceptedPairsOf(before)

\* C15: when no legal move exists for the side to move, both agents answer
\* None and do not raise.
C15_NoMoveAnswersNone ==
    /\ agent.kind # "none" => ~agent.raised
    /\ AgentAnswered /\ AcceptedPairsOf(before) = {} => agent.move = NoPlannedMove

C15_Witness ==
    /\ op = "mcts"
    /\ AcceptedPairsOf(before) = {}
    /\ remaining(before.board, before.turn.to_move) > 0
    /\ agent.move = NoPlannedMove
    /\ ~agent.raised

\* A colour has no piece left on board b: the match on b has been won.
MatchOver(b) == \E p \in Players : remaining(b, p) = 0

\* The nodes whose occupant the last call changed.
Changed == {n \in Nodes : board[n] # before.board[n]}

\* C21: once apply_player_move has returned a result carrying a winner, no
\* later move is accepted: the result with a winner leaves a colour without
\* pieces, and on such a board every call, by either player and for any origin
\* and target, returns legal = false and leaves board and turn unchanged.
C21_MatchOverIsAbsorbing ==
    /\ op = "apply_player_move" /\ result.winner # None => MatchOver(board)
    /\ op = "apply_player_move" /\ MatchOver(before.board) =>
          Rejected /\ board = before.board /\ turn = before.turn
    /\ MatchOver(board) =>
          \A player \in Players, origin \in Nodes, target \in Nodes :
              /\ ~Outcome(player, origin, target).result.legal
              /\ Outcome(player, origin, target).board = board
              /\ Outcome(player, origin, target).turn = turn

C21_Witness ==
    /\ op = "apply_player_move"
    /\ MatchOver(before.board)
    /\ Rejected
    /\ result.error = "illegal_move"
    /\ board = before.board

\* C29: in the fresh position no capture exists for any origin and either
\* colour; on every board simple_moves returns exactly the moves to the empty
\* neighbors of the origin, each once and in adjacency order, and nothing when
\* the origin is not occupied by the player.
C29_SimpleMovesExact ==
    /\ board = reset_board =>
          \A origin \in Nodes, player \in Players :
              capture_moves(board, origin, player) = << >>
    /\ \A origin \in Nodes, player \in Players :
          LET found == simple_moves(board, origin, player)
          IN  /\ Range(found) = SimpleOptions(board, origin, player)
              /\ Len(found) = Cardinality(SimpleOptions(board, origin, player))
              /\ board[origin] # player => found = << >>
              /\ \A i \in 1..Len(found) :
                    /\ found[i].captured = None
                    /\ board[found[i].target] = None

C29_Witness ==
    /\ Accepted
    /\ before.board = reset_board
    /\ result.captured = None
    /\ capture_moves(before.board, 16, 2) = << >>
    /\ last_move.target \in
          {m.target : m \in Range(simple_moves(before.board, last_move.origin, last_move.player))}

\* C30: an accepted simple move changes the occupant of exactly its origin and
\* its target; an accepted capture changes exactly origin, target and the
\* captured node; every other node keeps its occupant.
C30_MoveFrame ==
    Accepted =>
        /\ result.captured = None => Changed = {last_move.origin, last_move.target}
        /\ result.captured # None =>
              /\ Changed = {last_move.origin, last_move.target, result.captured}
              /\ Cardinality(Changed) = 3

C30_Witness ==
    /\ Accepted
    /\ result.captured # None
    /\ Changed = {last_move.origin, last_move.target, result.captured}

(***************************************************************************)
(* Plain minimax, without a window: the reference the search is compared   *)
(* with.                                                                   *)
(***************************************************************************)
\* The state after player plays the candidate option, and whether
\* apply_player_move accepted it.
played(state, player, option) ==
    apply_player_move(state.board, state.turn, player, option.origin, option.target)

\* The states the side to move can reach by one candidate of the enumeration.
successors(state) ==
    {[board |-> out.board, turn |-> out.turn] :
        out \in {o \in {played(state, state.turn.to_move, m) :
                          m \in Range(_generate_moves(state, None))} :
                    o.result.legal}}

greatest(values) == CHOOSE v \in values : \A w \in values : w <= v

least(values) == CHOOSE v \in values : \A w \in values : v <= w

RECURSIVE plain_minimax(_, _, _)

\* The depth-limited minimax value of state for the agent of colour self:
\* a decided state is worth +-Inf, a state at depth 0 or without a successor
\* its evaluation, any other the best successor value for the side to move.
plain_minimax(self, state, depth) ==
    IF _winner_for_state(state) # None
    THEN IF _winner_for_state(state) = self THEN Inf ELSE -Inf
    ELSE IF depth <= 0 \/ successors(state) = {}
    THEN _evaluate(self, state)
    ELSE IF state.turn.to_move = self
    THEN greatest({plain_minimax(self, c, depth - 1) : c \in successors(state)})
    ELSE least({plain_minimax(self, c, depth - 1) : c \in successors(state)})

\* The positions in the enumeration of the candidates that the agent of colour
\* self may play in state.
playable(self, state) ==
    {i \in 1..Len(_generate_moves(state, None)) :
        played(state, self, _generate_moves(state, None)[i]).result.legal}

\* The plain minimax value of the i-th candidate for a search of the given
\* depth.
candidate_value(self, state, depth, i) ==
    LET out == played(state, self, _generate_moves(state, None)[i])
    IN  plain_minimax(self, [board |-> out.board, turn |-> out.turn], depth - 1)

\* The first playable candidate of maximal value.
first_best(self, state, depth) ==
    CHOOSE i \in playable(self, state) :
        \A j \in playable(self, state) :
            /\ candidate_value(self, state, depth, j) <= candidate_value(self, state, depth, i)
            /\ j < i => candidate_value(self, state, depth, j) < candidate_value(self, state, depth, i)

\* C22: MinimaxAgent.choose_move answers the first move, in the order of the
\* enumeration, whose depth-limited minimax value is maximal: the alpha-beta
\* search picks the move that plain minimax with a strictly-greater comparison
\* picks, for every state and depth.
C22_AlphaBetaPicksFirstBest ==
    op = "minimax" /\ playable(agent.player, before) # {} =>
        LET best == _generate_moves(before, None)[first_best(agent.player, before, agent.effort)]
        IN  Answer = <<best.origin, best.target>>

C22_Witness ==
    /\ op = "minimax"
    /\ agent.effort = MaxDepth
    /\ Cardinality(playable(agent.player, before)) > 2
    /\ first_best(agent.player, before, agent.effort) > 1
    /\ \E j \in playable(agent.player, before) :
          /\ j > first_best(agent.player, before, agent.effort)
          /\ candidate_value(agent.player, before, agent.effort, j)
               = candidate_value(agent.player, before, agent.effort,
                                 first_best(agent.player, before, agent.effort))
    /\ Answer = <<_generate_moves(before, None)[first_best(agent.player, before, agent.effort)].origin,
                  _generate_moves(before, None)[first_best(agent.player, before, agent.effort)].target>>

\* The score _minimax gives state at the remaining depth, with an open window.
scored(self, state, depth) == _minimax(self, <<state>>, Given, depth, -Inf, Inf).score

\* The state the answer of the agent leads to.
answered_state ==
    LET out == apply_player_move(before.board, before.turn, agent.player,
                                 agent.move.origin, agent.move.target)
    IN  [board |-> out.board, turn |-> out.turn]

\* The states a search from the given state scores one ply down, and the given
\* state itself.
Scored == successors(before) \cup {before}

\* Both colours have a piece in state.
BothPresent(state) ==
    remaining(state.board, 1) > 0 /\ remaining(state.board, 2) > 0

\* The colour that still has pieces when the other has none.
Survivor(state) == IF remaining(state.board, 1) = 0 THEN 2 ELSE 1

\* C23 as stated: a state scored at depth 0, or one whose side to move has no
\* legal move, gets the static evaluation (states with a colour at zero pieces
\* set aside).
C23_Original ==
    op = "minimax" =>
        \A self \in Players, c \in Scored :
            BothPresent(c) =>
                /\ scored(self, c, 0) = _evaluate(self, c)
                /\ AcceptedPairsOf(c) = {} =>
                      \A depth \in 0..MaxDepth : scored(self, c, depth) = _evaluate(self, c)

\* C23, amended: a state in which both colours have pieces and the side to
\* move has a legal move is scored at depth <= 0 with the static evaluation;
\* a state in which both colours have pieces and the side to move has no legal
\* move is scored, at every depth, as lost by the side to move: -Inf when that
\* side is the agent, +Inf otherwise.
C23_BlockedSideLoses ==
    op = "minimax" =>
        \A self \in Players, c \in Scored :
            BothPresent(c) =>
                /\ AcceptedPairsOf(c) # {} =>
                      \A depth \in {-1, 0} : scored(self, c, depth) = _evaluate(self, c)
                /\ AcceptedPairsOf(c) = {} =>
                      \A depth \in -1..MaxDepth :
                          scored(self, c, depth) = IF c.turn.to_move = self THEN -Inf ELSE Inf

C23_Witness ==
    /\ op = "minimax"
    /\ agent.effort = 1
    /\ agent.move # NoPlannedMove
    /\ BothPresent(answered_state)
    /\ AcceptedPairsOf(answered_state) = {}
    /\ scored(agent.player, answered_state, 0) = Inf
    /\ _evaluate(agent.player, answered_state) < Inf
    /\ \E c \in successors(before) :
          /\ AcceptedPairsOf(c) # {}
          /\ scored(agent.player, c, 0) = _evaluate(agent.player, c)

\* C24: a state in which exactly one colour has no piece is scored +Inf when
\* the colour with pieces is the agent's and -Inf otherwise, at every
\* remaining depth, depth <= 0 included.
C24_DecidedStateIsInfinite ==
    op = "minimax" =>
        \A self \in Players, c \in Scored :
            ~BothPresent(c) /\ MatchOver(c.board) =>
                \A depth \in -1..MaxDepth :
                    scored(self, c, depth) = IF Survivor(c) = self THEN Inf ELSE -Inf

C24_Witness ==
    /\ op = "minimax"
    /\ agent.effort = 1
    /\ agent.move # NoPlannedMove
    /\ remaining(answered_state.board, opponent(agent.player)) = 0
    /\ remaining(answered_state.board, agent.player) > 0
    /\ scored(agent.player, answered_state, 0) = Inf
    /\ scored(opponent(agent.player), answered_state, 0) = -Inf

\* The number of moves apply_player_move would accept from colour in state,
\* were it colour's turn (a pending capture binds only the side to move).
LegalCount(state, colour) ==
    Cardinality({pair \in Nodes \X Nodes :
        apply_player_move(state.board,
                          IF state.turn.to_move = colour THEN state.turn
                          ELSE [to_move |-> colour, pending_capture_from |-> None],
                          colour, pair[1], pair[2]).result.legal})

\* C25 as stated: the static evaluation is 10 x (own pieces - opponent pieces)
\* + (own legal-move count - opponent legal-move count) + (1 when the agent is
\* to move with a capture pending), each count being the number of legal moves
\* of that colour in the state.
C25_Original ==
    op = "minimax" =>
        \A self \in Players :
            _evaluate(self, before)
              = 10 * (remaining(before.board, self) - remaining(before.board, opponent(self)))
                + (LegalCount(before, self) - LegalCount(before, opponent(self)))
                + (IF before.turn.to_move = self /\ before.turn.pending_capture_from # None
                   THEN 1 ELSE 0)

\* The root of the search tree and its children.
Root == 1

RootChildren == Range(tree.nodes[Root].children)

\* The loop of choose_move has made all its passes; the answer is read next.
SearchDone == op = "mcts_search" /\ tree.done = agent.effort

\* C26: MCTSAgent.choose_move answers the move of the root child with the
\* highest visit count, whatever the win rates; among children with the same
\* count the one expanded first, that is the one created first, is kept. Every
\* step that answers from a tree whose root has children answers so.
C26_MostVisitedChildFirstOnTies ==
    [][SearchDone /\ op' = "mcts" /\ RootChildren # {} =>
          /\ \E a \in RootChildren :
                /\ agent'.move = PlannedMove(tree.nodes[a].move.origin,
                                             tree.nodes[a].move.target)
                /\ \A c \in RootChildren :
                      /\ tree.nodes[c].visits <= tree.nodes[a].visits
                      /\ c < a => tree.nodes[c].visits < tree.nodes[a].visits
          /\ \A i, j \in 1..Len(tree.nodes[Root].children) :
                i < j => tree.nodes[Root].children[i] < tree.nodes[Root].children[j]]_vars

\* A finished search in which the first of the most visited root children has
\* a lower win rate than a later one with as many visits.
C26_Witness ==
    /\ SearchDone
    /\ Cardinality(RootChildren) > 1
    /\ \E a \in RootChildren, c \in RootChildren :
          /\ mcts_answer(tree.nodes).move = PlannedMove(tree.nodes[a].move.origin,
                                                        tree.nodes[a].move.target)
          /\ \A d \in RootChildren : d < a => tree.nodes[d].visits < tree.nodes[a].visits
          /\ c > a
          /\ tree.nodes[c].visits = tree.nodes[a].visits
          /\ tree.nodes[c].wins * tree.nodes[a].visits
               > tree.nodes[a].wins * tree.nodes[c].visits

\* The playouts _rollout can make from the current state for the agent of
\* colour self; the simulation is object 2 of the heap.
Playouts(self) ==
    rollout_steps(self, deepcopy(<<[board |-> board, turn |-> turn]>>, Given).heap,
                  deepcopy(<<[board |-> board, turn |-> turn]>>, Given).ref, 0)

\* C27 as stated: _rollout returns 1.0 when the agent's colour has won the
\* playout, 0.0 when the opponent has, and 0.5 only when the playout ends
\* without a winner (rewards in halves: 2, 0, 1).
C27_Original ==
    \A self \in Players : \A outcome \in Playouts(self) :
        outcome.reward =
            IF _winner_for_state(outcome.heap[2]) = self THEN 2
            ELSE IF _winner_for_state(outcome.heap[2]) = opponent(self) THEN 0
            ELSE 1

RECURSIVE visits_of(_, _)
\* The visits of the nodes listed in children, added up.
visits_of(nodes, children) ==
    IF children = << >> THEN 0
    ELSE nodes[Head(children)].visits + visits_of(nodes, Tail(children))

\* C28: after N iterations the root has N visits; every node has at least as
\* many visits as its children together; the reward of every node lies
\* between 0 and its visits (wins in halves: between 0 and twice the visits).
C28_VisitCounts ==
    op = "mcts_search" =>
        /\ tree.nodes[Root].visits = tree.done
        /\ SearchDone => tree.nodes[Root].visits = agent.effort
        /\ \A n \in 1..Len(tree.nodes) :
              /\ tree.nodes[n].visits >= visits_of(tree.nodes, tree.nodes[n].children)
              /\ 0 <= tree.nodes[n].wins
              /\ tree.nodes[n].wins <= 2 * tree.nodes[n].visits

C28_Witness ==
    /\ SearchDone
    /\ agent.effort = MaxIterations
    /\ tree.nodes[Root].visits = MaxIterations
    /\ \E n \in 2..Len(tree.nodes) :
          /\ tree.nodes[n].children # << >>
          /\ tree.nodes[n].visits > visits_of(tree.nodes, tree.nodes[n].children)
    /\ \E n \in 1..Len(tree.nodes) :
          tree.nodes[n].wins = 2 * tree.nodes[n].visits /\ tree.nodes[n].visits > 0

\* The moves the side to move can play in state that must be continued.
continuing(state) ==
    {pair \in Nodes \X Nodes :
        /\ played(state, state.turn.to_move, MoveOption(pair[1], pair[2], None)).result.legal
        /\ played(state, state.turn.to_move, MoveOption(pair[1], pair[2], None)).result.must_continue}

RECURSIVE chain_moves(_, _)
\* The largest number of consecutive must-continue moves the side to move can
\* make from state, counted up to fuel.
chain_moves(state, fuel) ==
    IF fuel = 0 \/ continuing(state) = {} THEN 0
    ELSE 1 + greatest({chain_moves(replay(state, state.turn.to_move, pair[1], pair[2]),
                                   fuel - 1) : pair \in continuing(state)})

\* C31: capture chains are finite. From every reached state the side to move
\* can make at most as many consecutive must-continue moves as the opponent has
\* pieces; each must-continue move takes one piece of the opponent, leaves one
\* and keeps the turn on the landing node, from which a capture exists; a move
\* that need not be continued clears pending_capture_from and passes the turn.
C31_CaptureChainsAreFinite ==
    /\ chain_moves([board |-> board, turn |-> turn],
                   remaining(board, opponent(turn.to_move)) + 1)
          <= remaining(board, opponent(turn.to_move))
    /\ Accepted /\ result.must_continue =>
          /\ Dropped(opponent(last_move.player)) = 1
          /\ remaining(board, opponent(last_move.player)) >= 1
          /\ turn.to_move = last_move.player
          /\ pending = last_move.target
    /\ Accepted /\ ~result.must_continue =>
          /\ pending = None
          /\ turn.to_move = opponent(last_move.player)
    /\ pending # None => capture_moves(board, pending, turn.to_move) # << >>

C31_Witness ==
    /\ Accepted
    /\ moves = 3
    /\ before.turn.pending_capture_from # None
    /\ remaining(before.board, opponent(last_move.player)) = 2
    /\ result.captured # None
    /\ ~result.must_continue
    /\ result.winner = None
    /\ turn.to_move = opponent(last_move.player)

\* The targets the edges of origin offer, in table order: for each edge the
\* neighbor, then the landing (None where the edge has no jump).
edge_targets(origin) ==
    [i \in 1..(2 * Len(neighbors(origin))) |->
        IF i % 2 = 1 THEN neighbors(origin)[(i + 1) \div 2].neighbor
        ELSE neighbors(origin)[i \div 2].landing]

\* The options apply_move found for the target of the last accepted call.
Matching ==
    SelectSeq(legal_moves(before.board, last_move.origin, last_move.player,
                          before.turn.pending_capture_from # None),
              LAMBDA option : option.target = last_move.target)

\* No two edges of an origin yield the same target.
TargetsUnique ==
    \A origin \in Nodes :
        \A i, j \in DOMAIN edge_targets(origin) :
            i # j /\ edge_targets(origin)[i] # None =>
                edge_targets(origin)[i] # edge_targets(origin)[j]

\* C32: for every origin of the adjacency table no two edges yield the same
\* move target: no landing equals another landing or a neighbor of the same
\* origin. So the lookup of apply_move by target finds exactly one option, a
\* simple move when the target is a neighbor and a capture when it is a
\* landing.
C32_TargetsAreUnique ==
    /\ TargetsUnique
    /\ Accepted =>
          /\ Len(Matching) = 1
          /\ result.captured = Matching[1].captured
          /\ result.captured = None <=>
                \E e \in Range(neighbors(last_move.origin)) : e.neighbor = last_move.target
          /\ result.captured # None <=>
                \E e \in Range(neighbors(last_move.origin)) :
                    e.landing = last_move.target /\ e.neighbor = result.captured

C32_Witness ==
    /\ Accepted
    /\ result.captured # None
    /\ Len(simple_moves(before.board, last_move.origin, last_move.player)) > 0
    /\ Len(Matching) = 1
    /\ Matching[1].captured = result.captured

\* The nodes one step from node.
neighbor_nodes(node) == {e.neighbor : e \in Range(neighbors(node))}

\* Steps go both ways, and so do jumps.
TableSymmetric ==
    /\ \A a \in Nodes, b \in Nodes :
          b \in neighbor_nodes(a) <=> a \in neighbor_nodes(b)
    /\ \A a \in Nodes :
          \A e \in Range(neighbors(a)) :
              e.landing # None =>
                  /\ e.landing # a
                  /\ e.landing \in neighbor_nodes(e.neighbor)
                  /\ \E f \in Range(neighbors(e.landing)) :
                        f.neighbor = e.neighbor /\ f.landing = a

\* C33: the adjacency table is symmetric: b is a neighbor of a iff a is a
\* neighbor of b; and whenever a can jump over b landing on c, c is a neighbor
\* of b other than a, and c can jump over b landing on a. An accepted capture
\* is such a jump.
C33_AdjacencyIsSymmetric ==
    /\ TableSymmetric
    /\ Accepted /\ result.captured # None =>
          /\ last_move.origin \in neighbor_nodes(result.captured)
          /\ last_move.target \in neighbor_nodes(result.captured)
          /\ \E f \in Range(neighbors(last_move.target)) :
                f.neighbor = result.captured /\ f.landing = last_move.origin

C33_Witness ==
    /\ Accepted
    /\ result.captured # None
    /\ last_move.target # last_move.origin
    /\ \E f \in Range(neighbors(last_move.target)) :
          f.neighbor = result.captured /\ f.landing = last_move.origin

(***************************************************************************)
(* The lobby under concurrent clients.                                     *)
(***************************************************************************)
\* The clients whose username is reserved and not yet a session.
Welcomed == {c \in Clients : lobby.task[c].pc = "welcome"}

\* The clients whose session is in lobby.sessions.
Live == {c \in Clients :
           lobby.task[c].pc \in {"session_loop", "gather_moves", "gather_results"}}

\* C39: reserve_username gives out no name that a connected session holds or
\* that another handshake in progress has reserved: whatever the order of
\* handshakes, add_session and remove_session, the names of the sessions
\* connected or being welcomed differ from one another, a name being
\* welcomed is reserved and not yet a session, and the name of a connected
\* session leads to that session.
C39_UsernamesAreUnique ==
    /\ \A c \in Welcomed \cup Live : \A d \in (Welcomed \cup Live) \ {c} :
          lobby.objs[c].username # lobby.objs[d].username
    /\ \A c \in Welcomed :
          /\ lobby.objs[c].username \in lobby.reserved_names
          /\ lobby.objs[c].username \notin DOMAIN lobby.sessions
    /\ \A c \in Live : sessions_get(lobby, lobby.objs[c].username) = c

\* Two handshakes in progress at once that asked for one nickname: one was
\* given "<nickname>_1", the other "<nickname>_1_1", and a third client is
\* connected.
C39_Witness ==
    \E c \in Welcomed : \E d \in Welcomed : \E e \in Live :
       /\ lobby.objs[c].username = <<1>>
       /\ lobby.objs[d].username = <<1, 1>>
       /\ lobby.objs[e].username = << >>

\* C34: moves on one match are applied one at a time, so every
\* move_accepted and opponent_moved message, written or still to be written,
\* carries the board exactly as it was right after its own move, also when
\* another move on that match was applied before the message was written.
C34_MessagesCarryTheBoardAfterTheirMove ==
    /\ \A c \in Clients :
          lobby.wire[c].type # "none" => lobby.wire[c].board = lobby.wire[c].expected
    /\ \A message \in lobby.writes :
          encode(message.board, lobby.match_objs[message.mid].rules.board)
             = message.expected

\* A move message written after the next move on its match was applied.
C34_Witness ==
    \E c \in Clients :
       /\ lobby.wire[c].type = "opponent_moved"
       /\ lobby.wire[c].overtaken
       /\ lobby.wire[c].board = lobby.wire[c].expected

\* The matches in lobby.matches that list the client as a player.
matches_of(L, client) ==
    {mid \in L.matches :
       \E i \in 1..Len(L.match_objs[mid].players) :
          L.match_objs[mid].players[i].session = client}

\* C35: when an idle player invites an idle player and the invited player
\* accepts with the very next message, a match is started: both have status
\* "playing" and the same, new match_id.
C35_Original ==
    lobby.answered # NoPair =>
       /\ lobby.objs[lobby.answered[1]].status = "playing"
       /\ lobby.objs[lobby.answered[2]].status = "playing"
       /\ lobby.objs[lobby.answered[1]].match_id # None
       /\ lobby.objs[lobby.answered[1]].match_id = lobby.objs[lobby.answered[2]].match_id
       /\ lobby.objs[lobby.answered[1]].match_id \in lobby.matches

\* C36: every connected session is a player in at most one match of
\* lobby.matches, and a connected session with status "playing" has a
\* match_id that names a match of lobby.matches listing it as a player.
C36_Original ==
    \A c \in Live :
       /\ Cardinality(matches_of(lobby, c)) <= 1
       /\ lobby.objs[c].status = "playing" =>
             /\ lobby.objs[c].match_id \in lobby.matches
             /\ c \in {lobby.match_objs[lobby.objs[c].match_id].players[i].session :
                         i \in 1..Len(lobby.match_objs[lobby.objs[c].match_id].players)}

\* C37: for every match, each of its players is sent at most one
\* match_result, however a winning move, a resign and a disconnect interleave
\* at the awaits of handle_move and _finish_match.
C37_Original ==
    \A key \in DOMAIN lobby.results : lobby.results[key] <= 1

\* The messages of the last accepted move that say your_turn = true.
told_to_move == SelectSeq(lobby.told.messages, LAMBDA message : message.your_turn)

\* C38: after every accepted move of a lobby match exactly one player is
\* told your_turn = true, and it is the player whose colour is to move.
C38_Original ==
    lobby.told.mid # None =>
       /\ Len(told_to_move) = 1
       /\ told_to_move[1].color = lobby.told.to_move

====
